---- MODULE Spec2Model ----
(***************************************************************************)
(* Onion request builder and transport (src/onion/crypto-util.ts).         *)
(*                                                                         *)
(* Buffers and JavaScript strings are sequences of byte values 0..255      *)
(* (strings by their UTF-8 / ASCII codes).  JSON values are tagged         *)
(* records, and JSON.stringify is computed character by character.         *)
(* X25519 is modelled by exponentiation in the multiplicative group modulo *)
(* a small prime (keys are one byte wide), HMAC-SHA256 by a one-byte       *)
(* keyed checksum and AES-GCM by a keyed byte shift followed by a 16-byte  *)
(* tag over key, IV and ciphertext: the algebra the builder relies on      *)
(* (Diffie-Hellman commutes, a wrong key or a changed byte fails the tag)  *)
(* is kept, the cryptographic strength is not.                             *)
(***************************************************************************)
EXTENDS Integers, Sequences, FiniteSets, TLC

\* ------------------------------------------------------------------ bounds

\* Longest candidate list the constructor is given.
MaxNodes == 3
\* Largest path length N (constructor argument / setOnionPathLength).
MaxPathLen == 3
\* Most builds followed on one OnionBuilder instance.
MaxBuilds == 2

\* --------------------------------------------------------- byte sequences

Min(a, b) == IF a < b THEN a ELSE b

\* Sum of s[lo..hi], halving the range so the recursion stays shallow.
RECURSIVE SumRange(_, _, _)
SumRange(s, lo, hi) ==
    IF lo > hi THEN 0
    ELSE IF lo = hi THEN s[lo]
    ELSE LET mid == (lo + hi) \div 2
         IN  SumRange(s, lo, mid) + SumRange(s, mid + 1, hi)

ByteSum(s) == SumRange(s, 1, Len(s))

\* Concatenation of a sequence of buffers (Buffer.concat).
RECURSIVE Concat(_)
Concat(parts) ==
    IF parts = <<>> THEN <<>> ELSE Head(parts) \o Concat(Tail(parts))

\* buf.slice(from) and buf.slice(from, to), 0-based, end exclusive,
\* clamped to the buffer as Buffer.slice clamps.
Slice(buf, from, to) ==
    LET f == Min(from, Len(buf))
        t == Min(to, Len(buf))
    IN  IF t <= f THEN <<>> ELSE SubSeq(buf, f + 1, t)

SliceFrom(buf, from) == Slice(buf, from, Len(buf))

\* ----------------------------------------------------------- string data

K_headers == <<104, 101, 97, 100, 101, 114, 115>>                 \* headers
K_host == <<104, 111, 115, 116>>                                  \* host
K_port == <<112, 111, 114, 116>>                                  \* port
K_protocol == <<112, 114, 111, 116, 111, 99, 111, 108>>           \* protocol
K_target == <<116, 97, 114, 103, 101, 116>>                       \* target
K_destination == <<100, 101, 115, 116, 105, 110, 97, 116, 105, 111, 110>>  \* destination
K_ephemeral_key == <<101, 112, 104, 101, 109, 101, 114, 97, 108, 95, 107, 101, 121>>  \* ephemeral_key
K_enc_type == <<101, 110, 99, 95, 116, 121, 112, 101>>            \* enc_type
K_method == <<109, 101, 116, 104, 111, 100>>                      \* method
K_params == <<112, 97, 114, 97, 109, 115>>                        \* params
K_msgId == <<109, 115, 103, 73, 100>>                             \* msgId
S_aes_gcm == <<97, 101, 115, 45, 103, 99, 109>>                   \* aes-gcm
S_get_message == <<103, 101, 116, 95, 109, 101, 115, 115, 97, 103, 101>>  \* get_message
S_https == <<104, 116, 116, 112, 115>>                            \* https
S_http == <<104, 116, 116, 112>>                                  \* http
S_LOKI == <<76, 79, 75, 73>>                                      \* LOKI

\* ------------------------------------------------------------------ JSON

\* JSON values: a string, a number, or an object with ordered members.
JStr(s) == [t |-> "str", s |-> s]
JNum(n) == [t |-> "num", n |-> n]
JObj(members) == [t |-> "obj", m |-> members]

\* Decimal digits of a natural number, as JSON.stringify prints it.
RECURSIVE Decimal(_)
Decimal(n) ==
    IF n < 10 THEN <<48 + n>> ELSE Decimal(n \div 10) \o <<48 + (n % 10)>>

\* A string literal: quoted, with the quote and the backslash escaped.
RECURSIVE Escaped(_)
Escaped(s) ==
    IF s = <<>> THEN <<>>
    ELSE (IF Head(s) \in {34, 92} THEN <<92, Head(s)>> ELSE <<Head(s)>>)
         \o Escaped(Tail(s))

Quoted(s) == <<34>> \o Escaped(s) \o <<34>>

\* JSON.stringify(v) without indentation: compact, members in insertion order.
RECURSIVE Stringify(_)
RECURSIVE StringifyMembers(_, _)
StringifyMembers(m, k) ==
    IF k > Len(m) THEN <<>>
    ELSE (IF k > 1 THEN <<44>> ELSE <<>>)
         \o Quoted(m[k][1]) \o <<58>> \o Stringify(m[k][2])
         \o StringifyMembers(m, k + 1)
Stringify(v) ==
    CASE v.t = "str" -> Quoted(v.s)
      [] v.t = "num" -> Decimal(v.n)
      [] v.t = "obj" -> <<123>> \o StringifyMembers(v.m, 1) \o <<125>>

\* ------------------------------------------------------------------- hex

\* Width of a key in bytes.  nacl keys are 32 bytes (the constructor keeps
\* slice(0, 32)); the model's group fits one byte.
KEY_BYTES == 1

HexDigit(d) == IF d < 10 THEN 48 + d ELSE 87 + d

\* CryptoUtils.toHex: two lowercase hex digits per byte.
toHex(buffer) ==
    [j \in 1..(2 * Len(buffer)) |->
        LET b == buffer[(j + 1) \div 2]
        IN  IF j % 2 = 1 THEN HexDigit(b \div 16) ELSE HexDigit(b % 16)]

\* Value of a hex digit character, -1 for any other character.
HexVal(c) ==
    IF c >= 48 /\ c <= 57 THEN c - 48
    ELSE IF c >= 97 /\ c <= 102 THEN c - 87
    ELSE IF c >= 65 /\ c <= 70 THEN c - 55
    ELSE -1

\* Number of leading well-formed hex pairs of a string.
RECURSIVE HexPairs(_, _)
HexPairs(hex, k) ==
    IF 2 * k + 2 > Len(hex) THEN k
    ELSE IF HexVal(hex[2 * k + 1]) < 0 \/ HexVal(hex[2 * k + 2]) < 0 THEN k
    ELSE HexPairs(hex, k + 1)

\* CryptoUtils.fromHex: Buffer.from(hex, "hex") decodes pairs of digits and
\* stops at the first pair that is not hex (or at a trailing single digit).
fromHex(hex) ==
    [j \in 1..HexPairs(hex, 0) |->
        16 * HexVal(hex[2 * j - 1]) + HexVal(hex[2 * j])]

\* ---------------------------------------------------------------- crypto

\* The group standing for Curve25519: integers modulo Prime under
\* multiplication, with base point Generator.
Prime == 23
Generator == 5

\* Length of the AES-GCM IV and of its authentication tag, in bytes.
IV_LEN == 12
TAG_LEN == 16

Ok(v) == [ok |-> TRUE, value |-> v]
Throw(e) == [ok |-> FALSE, error |-> e]

RECURSIVE ModExp(_, _)
ModExp(base, e) ==
    IF e = 0 THEN 1 % Prime ELSE (base * ModExp(base, e - 1)) % Prime

\* nacl.scalarMult(n, p): both arguments must have the key width.
scalarMult(n, p) ==
    IF Len(n) # KEY_BYTES THEN Throw([name |-> "Error", message |-> "bad n size"])
    ELSE IF Len(p) # KEY_BYTES THEN Throw([name |-> "Error", message |-> "bad p size"])
    ELSE Ok(<<ModExp(p[1] % Prime, n[1])>>)

\* nacl.scalarMult.base, the public key of a secret key.
scalarMultBase(n) == <<ModExp(Generator, n[1])>>

\* createHmac("sha256", key).update(msg).digest(), one byte wide.
hmacSha256(key, msg) ==
    <<(31 * ByteSum(key) + 7 * ByteSum(msg) + Len(msg)) % 256>>

\* deriveSymmetricKey salting the HMAC differently for the opening side.
deriveSymmetricKey_ByDirection(seckey, pubkey, isForDecryption) ==
    LET sharedSecret == scalarMult(seckey, pubkey)
        salt == IF isForDecryption THEN S_LOKI \o S_LOKI ELSE S_LOKI
    IN  IF ~sharedSecret.ok THEN sharedSecret
        ELSE Ok(hmacSha256(salt, sharedSecret.value))

\* HopEncryption.deriveSymmetricKey.
deriveSymmetricKey(seckey, pubkey, isForDecryption) ==
    LET sharedSecret == scalarMult(seckey, pubkey)
    IN  IF ~sharedSecret.ok THEN sharedSecret
        ELSE Ok(hmacSha256(S_LOKI, sharedSecret.value))

\* The GCM tag over key, IV and ciphertext.
gcmTag(key, iv, ct) ==
    LET t == 3 * ByteSum(key) + ByteSum(iv) + ByteSum(ct)
    IN  [j \in 1..TAG_LEN |-> (t + j) % 256]

\* crypto.subtle.encrypt({name: "AES-GCM", iv}, key, plaintext):
\* ciphertext of the plaintext's length followed by the tag.
subtleEncrypt(key, iv, plaintext) ==
    LET ks == (ByteSum(key) + ByteSum(iv)) % 256
        ct == [j \in 1..Len(plaintext) |-> (plaintext[j] + ks) % 256]
    IN  ct \o gcmTag(key, iv, ct)

\* crypto.subtle.decrypt: rejects (OperationError) when the tag does not
\* verify, otherwise the plaintext.
subtleDecrypt(key, iv, data) ==
    IF Len(data) < TAG_LEN
    THEN Throw([name |-> "OperationError", message |-> "decrypt"])
    ELSE LET ct == SubSeq(data, 1, Len(data) - TAG_LEN)
             tag == SubSeq(data, Len(data) - TAG_LEN + 1, Len(data))
             ks == (ByteSum(key) + ByteSum(iv)) % 256
         IN  IF tag # gcmTag(key, iv, ct)
             THEN Throw([name |-> "OperationError", message |-> "decrypt"])
             ELSE Ok([j \in 1..Len(ct) |-> (ct[j] - ks) % 256])

\* new HopEncryption(privateKey, publicKey, isServer).
HopEncryption(privateKey, publicKey, isServer) ==
    [privateKey |-> Slice(privateKey, 0, KEY_BYTES),
     publicKey |-> Slice(publicKey, 0, KEY_BYTES),
     isServer |-> isServer]

\* encryptAESGCM deriving the key from the sender's public key instead of
\* its private key.
encryptAESGCM_PublicKey(self, plaintext, recipientPubKey, iv) ==
    LET key == deriveSymmetricKey(self.publicKey, recipientPubKey, FALSE)
    IN  IF ~key.ok THEN key
        ELSE Ok(iv \o subtleEncrypt(key.value, iv, plaintext))

\* encryptAESGCM returning the encrypted buffer without the IV in front.
encryptAESGCM_NoIv(self, plaintext, recipientPubKey, iv) ==
    LET key == deriveSymmetricKey(self.privateKey, recipientPubKey, FALSE)
    IN  IF ~key.ok THEN key
        ELSE Ok(subtleEncrypt(key.value, iv, plaintext))

\* HopEncryption.encryptAESGCM; iv is the value randomBytes(12) returns.
encryptAESGCM(self, plaintext, recipientPubKey, iv) ==
    LET key == deriveSymmetricKey(self.privateKey, recipientPubKey, FALSE)
    IN  IF ~key.ok THEN key
        ELSE Ok(iv \o subtleEncrypt(key.value, iv, plaintext))

\* HopEncryption.encrypt.
encrypt(self, encType, plaintext, recipientPubKey, iv) ==
    IF encType = "aes-gcm" \/ encType = "gcm"
    THEN encryptAESGCM(self, plaintext, recipientPubKey, iv)
    ELSE Throw([name |-> "Error", message |-> "Unsupported encryption type"])

\* decryptAESGCM without the length test in front.
decryptAESGCM_NoLengthCheck(self, ciphertext, senderPubKey) ==
    LET iv == Slice(ciphertext, 0, IV_LEN)
        encrypted == SliceFrom(ciphertext, IV_LEN)
        key == deriveSymmetricKey(self.privateKey, senderPubKey, TRUE)
    IN  IF ~key.ok THEN key
        ELSE subtleDecrypt(key.value, iv, encrypted)

\* HopEncryption.decryptAESGCM.
decryptAESGCM(self, ciphertext, senderPubKey) ==
    IF Len(ciphertext) < IV_LEN + TAG_LEN
    THEN Throw([name |-> "Error", message |-> "Ciphertext too short for AES-GCM"])
    ELSE LET iv == Slice(ciphertext, 0, IV_LEN)
             encrypted == SliceFrom(ciphertext, IV_LEN)
             key == deriveSymmetricKey(self.privateKey, senderPubKey, TRUE)
         IN  IF ~key.ok THEN key
             ELSE subtleDecrypt(key.value, iv, encrypted)

\* HopEncryption.decrypt.
decrypt(self, encType, ciphertext, senderPubKey) ==
    IF encType = "aes-gcm" \/ encType = "gcm"
    THEN decryptAESGCM(self, ciphertext, senderPubKey)
    ELSE IF encType = "xchacha20"
    THEN decryptAESGCM(self, ciphertext, senderPubKey)
    ELSE Throw([name |-> "Error", message |-> "Unsupported encryption type"])

\* ---------------------------------------------------------------- frames

\* The four bytes of an unsigned 32-bit integer, little endian.
U32LE(n) ==
    <<n % 256, (n \div 256) % 256, (n \div 65536) % 256, (n \div 16777216) % 256>>

\* encodeSize: buf.writeUInt32LE(size, 0).
encodeSize(size) == U32LE(size)

\* DataView.setUint32(0, value, true): the low 32 bits of the value (the
\* fourth byte of U32LE drops everything above them).
setUint32LE(value) == U32LE(value)

\* readUInt32LE of the first four bytes.
ReadU32LE(b) == b[1] + 256 * b[2] + 65536 * b[3] + 16777216 * b[4]

\* LayerFramer.decode: [u32-LE size][inner][tail].
DecodeFrame(bytes) ==
    IF Len(bytes) < 4 THEN Throw("Truncated")
    ELSE LET size == ReadU32LE(bytes)
         IN  IF Len(bytes) < 4 + size THEN Throw("Truncated")
             ELSE Ok([size |-> size,
                      inner |-> Slice(bytes, 4, 4 + size),
                      tail |-> SliceFrom(bytes, 4 + size)])

\* ------------------------------------------------------------ input data

Null == <<>>
Some(x) == <<x>>

\* new Error(message) with the numbers interpolated into the message; an
\* Error built this way carries no cause.
MkError(name, message, detail) ==
    [name |-> name, message |-> message, detail |-> detail, cause |-> Null]

\* The x25519 secret key of the k-th service node of the network.  The
\* builder never sees it; it is what the node itself would use to open
\* its layer.
NodeSecret(k) == <<3 + k>>

\* The k-th service node of the network, as the directory describes it.
Node(k) ==
    [pubkey_ed25519 |-> toHex(<<160 + k>>),
     pubkey_x25519 |-> toHex(scalarMultBase(NodeSecret(k))),
     public_ip |-> <<49, 48, 46, 48, 46, 48, 46, 48 + k>>,   \* 10.0.0.k
     storage_lmq_port |-> 20200,
     storage_port |-> 22020 + k,
     swarm_id |-> k]

\* The same entry with one required field missing; which one depends on k.
Incomplete(k) ==
    CASE k % 4 = 1 -> [Node(k) EXCEPT !.pubkey_ed25519 = <<>>]
      [] k % 4 = 2 -> [Node(k) EXCEPT !.pubkey_x25519 = <<>>]
      [] k % 4 = 3 -> [Node(k) EXCEPT !.public_ip = <<>>]
      [] k % 4 = 0 -> [Node(k) EXCEPT !.storage_port = 0]

\* Candidate lists: up to MaxNodes entries; entry k is node k or node k
\* with a field missing, and the second entry may repeat node 1.
EntryChoices(k) ==
    {Node(k), Incomplete(k)} \cup (IF k = 2 THEN {Node(1)} ELSE {})

RECURSIVE ListsOfLength(_)
ListsOfLength(n) ==
    IF n = 0 THEN {<<>>}
    ELSE {Append(l, e) : l \in ListsOfLength(n - 1), e \in EntryChoices(n)}

CandidateLists == UNION {ListsOfLength(n) : n \in 0..MaxNodes}

\* Payloads: {} and {"method":"get_message","params":{"msgId":"17"}}.
PayloadEmpty == JObj(<<>>)
PayloadGet ==
    JObj(<< <<K_method, JStr(S_get_message)>>,
            <<K_params, JObj(<< <<K_msgId, JStr(<<49, 55>>)>> >>)>> >>)
Payloads == {PayloadEmpty, PayloadGet}

\* Destinations.  Host a.io, target /lsrpc; host b.org, target /x.
DestinationA ==
    [host |-> <<97, 46, 105, 111>>, port |-> 443,
     protocol |-> S_https, target |-> <<47, 108, 115, 114, 112, 99>>]
DestinationB ==
    [host |-> <<98, 46, 111, 114, 103>>, port |-> 80,
     protocol |-> S_http, target |-> <<47, 120>>]
ValidDestinations == {DestinationA, DestinationB}
InvalidDestinations ==
    {[DestinationA EXCEPT !.host = <<>>],
     [DestinationA EXCEPT !.port = 0],
     [DestinationA EXCEPT !.protocol = <<>>],
     [DestinationA EXCEPT !.target = <<>>]}
\* What a caller may pass as customDestination: a destination or undefined.
DestinationArgs ==
    {Some(d) : d \in ValidDestinations \cup InvalidDestinations} \cup {Null}

\* Randomness.  Every build reads one stream of the operating system's
\* generator; draw number pos of stream e is e.start + e.step * pos.
Entropy == {[start |-> 2, step |-> 2], [start |-> 7, step |-> 4]}
Draw(e, pos) == e.start + e.step * pos

\* nacl.box.keyPair() from one draw: a secret scalar and its public key.
keyPair(r) ==
    LET sk == <<1 + (r % (Prime - 2))>>
    IN  [publicKey |-> scalarMultBase(sk), secretKey |-> sk]

\* randomBytes(size) from one draw.
randomBytes(size, r) == [j \in 1..size |-> (17 * r + 29 * j) % 256]

\* ----------------------------------------------------------------- state

VARIABLES
    serviceNodes,            \* OnionBuilder.serviceNodes
    onionPathLength,         \* OnionBuilder.onionPathLength
    pc,                      \* where the running call stands
    call,                    \* the public method that was called
    payload,                 \* sendOnionRequest: payload
    customDestination,       \* sendOnionRequest: customDestination
    cancelSignal,            \* whether the caller has asked to cancel the call
    pathLength,              \* buildOnionPath: pathLength
    activeNodes,             \* buildOnionPath: activeNodes
    selectedNodes,           \* buildOnionPath: selectedNodes
    usedIndices,             \* buildOnionPath: usedIndices
    pickOrder,               \* history: the indices pushed, in order
    onionPath,               \* buildOnionRequest: onionPath
    entropy,                 \* the random stream this build reads
    rngPos,                  \* draws taken from it so far
    finalEphemeralKeyPair,   \* buildOnionRequest: finalEphemeralKeyPair
    blob,                    \* buildOnionRequest: blob
    ephemeralKeyForNextHop,  \* buildOnionRequest: ephemeralKeyForNextHop
    i,                       \* buildOnionRequest: loop index
    layers,                  \* history: one record per loop iteration
    onionRequest,            \* the OnionRequestResult, once built
    http,                    \* HTTP requests issued by the running call
    ret                      \* what the call returned or threw

\* The keypairs nacl.box.keyPair has returned to this OnionBuilder,
\* across its calls.
VARIABLES
    builds,                  \* buildOnionRequest calls entered so far
    generated                \* history: [build, keyPair] per keyPair() call

\* A HopEncryption pair used on its own: a sender holding an ephemeral
\* keypair, a hop holding its long-term keypair, and the bytes between them.
VARIABLES
    sender,                  \* the sender's keypair
    receiver,                \* the hop's keypair
    plaintext,               \* the bytes the sender seals
    wire,                    \* the bytes on their way to the hop
    wireKind,                \* "none", "sealed", "flipped" or "short"
    lastCall                 \* the last HopEncryption method call and its result

\* A fetchServiceNodes or updateServiceNodes call running on the
\* OnionBuilder, and the seed nodes it talks to.
VARIABLES
    network,                 \* how each seed node answers, round by round
    fetchPc,                 \* where the running fetch stands
    fetchCall,               \* the public method that was called
    limit,                   \* fetchServiceNodes: limit
    attempt,                 \* fetchServiceNodes: attempt
    seedIndex,               \* position of seedNodeUrl in OXEN_SEED_NODES
    requests,                \* history: the POSTs issued to seed nodes
    waits,                   \* history: the backoff timers awaited
    fetchRet,                \* what fetchServiceNodes returned or threw
    versions                 \* history: the lists the instance was given

\* The ConsoleLogger of the instance and what the process has written.
VARIABLES
    logLevel,                \* ConsoleLogger.logLevel
    console                  \* the lines written to the console

\* The process of server.ts: its message store, its clock and the request
\* it answered last.
VARIABLES
    db,                      \* db: the stored messages, one per message id
    now,                     \* new Date().getTime()
    req,                     \* the request handled last
    res,                     \* the response it was given
    sent                     \* history: the messages send_message answered with

builderVars == <<serviceNodes, onionPathLength>>
serverVars == <<db, now, req, res, sent>>
logVars == <<logLevel, console>>
callVars == <<call, payload, customDestination, cancelSignal>>
pathVars == <<pathLength, activeNodes, selectedNodes, usedIndices, pickOrder>>
buildVars == <<onionPath, entropy, rngPos, finalEphemeralKeyPair, blob,
               ephemeralKeyForNextHop, i, layers, onionRequest>>
generatorVars == <<builds, generated>>
cryptoVars == <<sender, receiver, plaintext, wire, wireKind, lastCall>>
directoryVars == <<network, fetchPc, fetchCall, limit, attempt, seedIndex,
                   requests, waits, fetchRet, versions>>
\* An OnionBuilder and its running calls.
builderState == <<builderVars, pc, callVars, pathVars, buildVars, http, ret,
                  generatorVars, directoryVars, serverVars>>
\* What a running path selection, build or send leaves alone.
outsideBuilder == <<cryptoVars, directoryVars, serverVars>>
vars == <<builderState, cryptoVars, logVars>>

NoEntropy == [start |-> 0, step |-> 0]
NoKeyPair == [publicKey |-> <<>>, secretKey |-> <<>>]
NoReturn == [kind |-> "none"]

\* enum LogLevel.
LogLevel_DEV == "dev"
LogLevel_PROD == "prod"

\* A line on the console, named by the source line that writes it, with
\* the value it shows.
Line(n) == [line |-> n, value |-> <<>>]
LineWith(n, value) == [line |-> n, value |-> value]

\* ConsoleLogger.error, warn, log and debug: the lines appear at level
\* dev only.
Gated(lines) == IF logLevel = LogLevel_DEV THEN lines ELSE {}

\* A step that calls the logger with the lines `gated` and console.log
\* with the lines `raw`.
Log(gated, raw) ==
    /\ console' = console \cup Gated(gated) \cup raw
    /\ UNCHANGED logLevel

\* A step that writes nothing.
Quiet == UNCHANGED logVars

\* The locals of a call that is not running.
IdleLocals ==
    /\ call = "none" /\ payload = Null /\ customDestination = Null
    /\ cancelSignal = FALSE
    /\ console = {}
    /\ pathLength = 0 /\ activeNodes = <<>> /\ selectedNodes = <<>>
    /\ usedIndices = {} /\ pickOrder = <<>>
    /\ onionPath = <<>> /\ entropy = NoEntropy /\ rngPos = 0
    /\ finalEphemeralKeyPair = NoKeyPair /\ blob = <<>>
    /\ ephemeralKeyForNextHop = <<>> /\ i = 0 /\ layers = <<>>
    /\ onionRequest = Null /\ http = <<>> /\ ret = NoReturn
    /\ builds = 0 /\ generated = <<>>

NoCall == [method |-> "none"]

\* No HopEncryption is used on its own.
NoCrypto ==
    /\ sender = NoKeyPair /\ receiver = NoKeyPair /\ plaintext = <<>>
    /\ wire = <<>> /\ wireKind = "none" /\ lastCall = NoCall

\* No seed node is reachable.
NoNetwork == <<>>

\* The locals of a fetch that is not running.
IdleFetch ==
    /\ fetchPc = "idle" /\ fetchCall = "none" /\ limit = 0
    /\ attempt = 0 /\ seedIndex = 0
    /\ requests = <<>> /\ waits = <<>> /\ fetchRet = NoReturn

\* No fetch runs and none will: the list is the constructor's.
NoFetch ==
    /\ network = NoNetwork
    /\ IdleFetch
    /\ versions = {serviceNodes}

\* No server process: nothing stored, nothing handled.
NoServer ==
    /\ db = {}
    /\ now = 0
    /\ req = Null
    /\ res = Null
    /\ sent = {}

\* new OnionBuilder(serviceNodes, onionPathLength).
Init ==
    /\ serviceNodes \in CandidateLists
    /\ onionPathLength \in 0..MaxPathLen
    /\ pc = "idle"
    /\ IdleLocals
    /\ logLevel = LogLevel_DEV
    /\ NoCrypto
    /\ NoServer
    /\ NoFetch

\* ------------------------------------------------------- buildOnionPath

\* The filter of buildOnionPath: all four required fields are truthy.
IsActive(node) ==
    /\ node.pubkey_ed25519 # <<>>
    /\ node.pubkey_x25519 # <<>>
    /\ node.public_ip # <<>>
    /\ node.storage_port # 0

\* The projection of a service node to a path node.
PathNode(node) ==
    [ed25519_pubkey |-> node.pubkey_ed25519,
     x25519_pubkey |-> node.pubkey_x25519,
     ip |-> node.public_ip,
     port |-> node.storage_port]

\* The error thrown inside the try block when candidates are missing.
NotEnoughNodes(need, got) ==
    MkError("Error", "Not enough active service nodes. Need N, got M", <<need, got>>)

\* The catch block of buildOnionPath: whatever was thrown is logged and a
\* new error is thrown in its place.
buildOnionPathCatch(error) ==
    MkError("Error", "Unable to build onion path", <<>>)

\* What buildOnionPath(n) hands to its logger before the loop: the count
\* of active nodes, and the error if they are too few.
PathLines(n) ==
    {Line(373)} \cup
    (IF Len(SelectSeq(serviceNodes, IsActive)) < n THEN {Line(404)} ELSE {})

\* What encryptAESGCM writes with console.log: the recipient's key, and
\* once they exist the derived symmetric key and the IV.
encryptAESGCMOutput(self, recipientPubKey, iv) ==
    LET key == deriveSymmetricKey(self.privateKey, recipientPubKey, FALSE)
    IN  {Line(51), LineWith(52, toHex(recipientPubKey))} \cup
        (IF key.ok
         THEN {LineWith(59, toHex(key.value)), LineWith(63, toHex(iv))}
         ELSE {})

\* Entry of buildOnionPath(n) up to the selection loop.
EnterBuildOnionPath(n) ==
    LET active == SelectSeq(serviceNodes, IsActive)
    IN  /\ pathLength' = n
        /\ activeNodes' = active
        /\ selectedNodes' = <<>>
        /\ usedIndices' = {}
        /\ pickOrder' = <<>>
        /\ IF Len(active) < n
           THEN /\ pc' = "done"
                /\ ret' = [kind |-> "error",
                           error |-> buildOnionPathCatch(NotEnoughNodes(n, Len(active)))]
           ELSE /\ pc' = "path_loop"
                /\ ret' = ret

\* A caller invokes buildOnionPath(n).
CallBuildOnionPath(n) ==
    /\ Log(PathLines(n), {})
    /\ UNCHANGED outsideBuilder
    /\ UNCHANGED generatorVars
    /\ pc = "idle"
    /\ call' = "buildOnionPath"
    /\ UNCHANGED cancelSignal
    /\ EnterBuildOnionPath(n)
    /\ UNCHANGED <<builderVars, payload, customDestination, buildVars, http>>

\* The push of the loop body: index randomIndex is marked and its node
\* appended.
PushIndex(randomIndex) ==
    /\ usedIndices' = usedIndices \cup {randomIndex}
    /\ selectedNodes' = Append(selectedNodes, activeNodes[randomIndex + 1])
    /\ pickOrder' = Append(pickOrder, randomIndex)

\* The loop body without the usedIndices test.
SelectNode_NoUsedCheck(randomIndex) == PushIndex(randomIndex)

\* One iteration of the selection loop with the index Math.random gave.
SelectNode(randomIndex) ==
    IF randomIndex \notin usedIndices
    THEN PushIndex(randomIndex)
    ELSE UNCHANGED <<usedIndices, selectedNodes, pickOrder>>

\* One pass of the while loop in which Math.random gives randomIndex.
DrawIndex(randomIndex) ==
    /\ Quiet
    /\ UNCHANGED outsideBuilder
    /\ UNCHANGED generatorVars
    /\ pc = "path_loop"
    /\ Len(selectedNodes) < pathLength
    /\ randomIndex \in 0..(Len(activeNodes) - 1)
    /\ SelectNode(randomIndex)
    /\ UNCHANGED <<builderVars, pc, callVars, pathLength, activeNodes,
                   buildVars, http, ret>>

PathDraw == \E randomIndex \in 0..(MaxNodes - 1) : DrawIndex(randomIndex)

\* The loop is over: the selection is projected and returned.
PathReturn ==
    /\ Log(IF call = "sendOnionRequest" THEN {Line(621)} ELSE {}, {})
    /\ UNCHANGED outsideBuilder
    /\ UNCHANGED generatorVars
    /\ pc = "path_loop"
    /\ Len(selectedNodes) >= pathLength
    /\ LET path == [k \in 1..Len(selectedNodes) |-> PathNode(selectedNodes[k])]
       IN  IF call = "buildOnionPath"
           THEN /\ pc' = "done"
                /\ ret' = [kind |-> "path", path |-> path]
                /\ UNCHANGED onionPath
           ELSE /\ pc' = "build_entry"
                /\ onionPath' = path
                /\ UNCHANGED ret
    /\ UNCHANGED <<builderVars, callVars, pathVars, entropy, rngPos,
                   finalEphemeralKeyPair, blob, ephemeralKeyForNextHop, i,
                   layers, onionRequest, http>>

\* ---------------------------------------------------- buildOnionRequest

\* finalRoute, the route annotation of the innermost frame.
finalRoute == JObj(<< <<K_headers, JObj(<<>>)>> >>)

\* finalData: [size][payload][routing] around the payload's JSON.
FinalData(finalPayload) ==
    LET payloadBuffer == Stringify(finalPayload)
        routingBuffer == Stringify(finalRoute)
        sizeBuffer == encodeSize(Len(payloadBuffer))
    IN  Concat(<<sizeBuffer, payloadBuffer, routingBuffer>>)

\* routingInfo addressing an intermediate hop's own identity instead of the
\* next hop's.
RoutingInfo_OwnIdentity(path, idx, destination, keyForNextHop) ==
    IF idx = Len(path) - 1
    THEN JObj(<< <<K_host, JStr(destination.host)>>,
                 <<K_port, JNum(destination.port)>>,
                 <<K_protocol, JStr(destination.protocol)>>,
                 <<K_target, JStr(destination.target)>> >>)
    ELSE JObj(<< <<K_destination, JStr(path[idx + 1].ed25519_pubkey)>>,
                 <<K_ephemeral_key, JStr(toHex(keyForNextHop))>>,
                 <<K_enc_type, JStr(S_aes_gcm)>> >>)

\* routingInfo of hop idx (0-based) of the path.
RoutingInfo(path, idx, destination, keyForNextHop) ==
    IF idx = Len(path) - 1
    THEN JObj(<< <<K_host, JStr(destination.host)>>,
                 <<K_port, JNum(destination.port)>>,
                 <<K_protocol, JStr(destination.protocol)>>,
                 <<K_target, JStr(destination.target)>> >>)
    ELSE JObj(<< <<K_destination, JStr(path[idx + 2].ed25519_pubkey)>>,
                 <<K_ephemeral_key, JStr(toHex(keyForNextHop))>>,
                 <<K_enc_type, JStr(S_aes_gcm)>> >>)

\* layerData without the copy of the previous blob.
LayerData_NoBlob(prevBlob, routingInfo) ==
    LET routingBuffer == Stringify(routingInfo)
        blobSizeBuffer == setUint32LE(Len(prevBlob))
    IN  blobSizeBuffer \o routingBuffer

\* layerData: [blob_size][blob][routing_json].
LayerData(prevBlob, routingInfo) ==
    LET routingBuffer == Stringify(routingInfo)
        blobSizeBuffer == setUint32LE(Len(prevBlob))
    IN  blobSizeBuffer \o prevBlob \o routingBuffer

\* Every layer sealed to the entry node.
HopNode_Entry(path, idx) == path[1]

\* The hop a layer is sealed to: the node at idx (0-based) of the path.
HopNode(path, idx) == path[idx + 1]

\* The loop body without the update of ephemeralKeyForNextHop.
UpdatedKeyForNextHop_Kept(ephemeralKeyPair, previousKey) == previousKey

\* The update at the end of the loop body: the key the previous hop will
\* advertise is this layer's ephemeral public key.
UpdatedKeyForNextHop(ephemeralKeyPair, previousKey) == ephemeralKeyPair.publicKey

\* wrapperMeta of the outermost wrapper.
WrapperMeta(keyForNextHop) ==
    JObj(<< <<K_ephemeral_key, JStr(toHex(keyForNextHop))>>,
            <<K_enc_type, JStr(S_aes_gcm)>> >>)

\* finalWrapper with the length of the whole wrapper as its size prefix.
FinalWrapper_TotalSize(outerBlob, wrapperMeta) ==
    LET wrapperMetaBuffer == Stringify(wrapperMeta)
        wrapperSizeBuffer ==
            setUint32LE(4 + Len(outerBlob) + Len(wrapperMetaBuffer))
    IN  wrapperSizeBuffer \o outerBlob \o wrapperMetaBuffer

\* finalWrapper: [blob_size][blob][wrapper_meta_json].
FinalWrapper(outerBlob, wrapperMeta) ==
    LET wrapperMetaBuffer == Stringify(wrapperMeta)
        wrapperSizeBuffer == setUint32LE(Len(outerBlob))
    IN  wrapperSizeBuffer \o outerBlob \o wrapperMetaBuffer

\* onionPath[0] of the result: undefined for an empty path.
EntryNode(path) == IF Len(path) = 0 THEN Null ELSE Some(path[1])

\* The keypair of a layer taken from the final keypair instead of a new one.
LayerKeyPair_Final(finalKeyPair, fresh) == finalKeyPair

\* The keypair a loop iteration seals with: the one nacl.box.keyPair()
\* returned in that iteration.
LayerKeyPair(finalKeyPair, fresh) == fresh

\* A failed seal caught and the layer passed on as it is.
AwaitSeal_Swallowed(sealed, layerData) ==
    IF sealed.ok THEN sealed ELSE Ok(layerData)

\* blob = await nodeHopEncryption.encrypt(...): the sealed bytes, or the
\* rejection of encrypt thrown on by the await.
AwaitSeal(sealed, layerData) == sealed

\* Entry of buildOnionRequest up to the backward loop.  The generator goes
\* on from where an earlier build on this instance left it.
BuildEntry ==
    /\ Log({Line(442), Line(446), Line(484)}, {})
    /\ UNCHANGED outsideBuilder
    /\ pc = "build_entry"
    /\ \E e \in Entropy :
        LET kp == keyPair(Draw(e, rngPos))
        IN  /\ entropy = NoEntropy \/ e = entropy
            /\ entropy' = e
            /\ rngPos' = rngPos + 1
            /\ finalEphemeralKeyPair' = kp
            /\ blob' = FinalData(payload[1])
            /\ ephemeralKeyForNextHop' = kp.publicKey
            /\ generated' = Append(generated, [build |-> builds + 1, keyPair |-> kp])
    /\ builds' = builds + 1
    /\ i' = Len(onionPath) - 1
    /\ layers' = <<>>
    /\ pc' = "build_loop"
    /\ UNCHANGED <<builderVars, callVars, pathVars, onionPath, onionRequest,
                   http, ret>>

\* One iteration of the backward loop: the layer of hop i.
BuildLayer ==
    /\ UNCHANGED outsideBuilder
    /\ pc = "build_loop"
    /\ i >= 0
    /\ LET node == HopNode(onionPath, i)
           fresh == keyPair(Draw(entropy, rngPos))
           ephemeralKeyPair == LayerKeyPair(finalEphemeralKeyPair, fresh)
           iv == randomBytes(IV_LEN, Draw(entropy, rngPos + 1))
           routingInfo == RoutingInfo(onionPath, i, customDestination[1],
                                      ephemeralKeyForNextHop)
           layerData == LayerData(blob, routingInfo)
           nodeX25519PubKey == fromHex(node.x25519_pubkey)
           nodeHopEncryption == HopEncryption(ephemeralKeyPair.secretKey,
                                              ephemeralKeyPair.publicKey, FALSE)
           sealed == AwaitSeal(encrypt(nodeHopEncryption, "aes-gcm", layerData,
                                       nodeX25519PubKey, iv),
                               layerData)
       IN  /\ rngPos' = rngPos + 2
           /\ Log({Line(494), Line(495)} \cup (IF sealed.ok THEN {Line(547)} ELSE {}),
                  encryptAESGCMOutput(nodeHopEncryption, nodeX25519PubKey, iv))
           /\ generated' = Append(generated, [build |-> builds, keyPair |-> fresh])
           /\ UNCHANGED builds
           /\ IF sealed.ok
              THEN /\ blob' = sealed.value
                   /\ ephemeralKeyForNextHop' =
                          UpdatedKeyForNextHop(ephemeralKeyPair, ephemeralKeyForNextHop)
                   /\ i' = i - 1
                   /\ layers' = Append(layers,
                          [hop |-> i,
                           recipient |-> nodeX25519PubKey,
                           ephemeralKeyPair |-> ephemeralKeyPair,
                           iv |-> iv,
                           routingInfo |-> routingInfo,
                           layerData |-> layerData,
                           blob |-> sealed.value])
                   /\ UNCHANGED <<pc, ret>>
              ELSE /\ pc' = "done"
                   /\ ret' = [kind |-> "error", error |-> sealed.error]
                   /\ UNCHANGED <<blob, ephemeralKeyForNextHop, i, layers>>
    /\ UNCHANGED <<builderVars, callVars, pathVars, onionPath, entropy,
                   finalEphemeralKeyPair, onionRequest, http>>

\* The paths a caller of the public buildOnionRequest passes.
DirectPaths ==
    {<<PathNode(Node(1))>>, <<PathNode(Node(1)), PathNode(Node(2))>>}

\* A caller invokes buildOnionRequest(p, path, d) itself.  Its first
\* statement reads destination.host, which throws for an undefined
\* destination; nothing else about the destination is looked at.
CallBuildOnionRequest(p, path, d) ==
    /\ Quiet
    /\ UNCHANGED outsideBuilder
    /\ UNCHANGED generatorVars
    /\ pc = "idle"
    /\ builds < MaxBuilds
    /\ call' = "buildOnionRequest"
    /\ UNCHANGED cancelSignal
    /\ payload' = Some(p)
    /\ customDestination' = d
    /\ IF d = Null
       THEN /\ pc' = "done"
            /\ ret' = [kind |-> "error",
                       error |-> MkError("TypeError",
                           "Cannot read properties of undefined (reading 'host')", <<>>)]
            /\ UNCHANGED onionPath
       ELSE /\ pc' = "build_entry"
            /\ onionPath' = path
            /\ UNCHANGED ret
    /\ UNCHANGED <<builderVars, pathVars, entropy, rngPos,
                   finalEphemeralKeyPair, blob, ephemeralKeyForNextHop, i,
                   layers, onionRequest, http>>

\* After the loop: the outermost wrapper and the result.  The result goes
\* to the caller of buildOnionRequest, or on to sendRawOnionRequest.
BuildReturn ==
    /\ Log({Line(579)}, {})
    /\ UNCHANGED outsideBuilder
    /\ UNCHANGED generatorVars
    /\ pc = "build_loop"
    /\ i < 0
    /\ onionRequest' = Some(
           [encryptedPayload |->
                FinalWrapper(blob, WrapperMeta(ephemeralKeyForNextHop)),
            entryNode |-> EntryNode(onionPath),
            ephemeralKey |-> ephemeralKeyForNextHop,
            finalEphemeralKeyPair |-> finalEphemeralKeyPair])
    /\ IF call = "buildOnionRequest"
       THEN pc' = "done" /\ ret' = [kind |-> "request"]
       ELSE pc' = "send_raw" /\ UNCHANGED ret
    /\ UNCHANGED <<builderVars, callVars, pathVars, onionPath, entropy, rngPos,
                   finalEphemeralKeyPair, blob, ephemeralKeyForNextHop, i,
                   layers, http>>

\* ------------------------------------------------------ sendOnionRequest

\* The validation at the top of sendOnionRequest.
DestinationError(destination) ==
    IF destination = Null
    THEN Some(MkError("Error", "Custom destination is required", <<>>))
    ELSE IF \/ destination[1].host = <<>>
            \/ destination[1].port = 0
            \/ destination[1].protocol = <<>>
            \/ destination[1].target = <<>>
    THEN Some(MkError("Error",
           "Custom destination must have host, port, protocol, and target properties",
           <<>>))
    ELSE Null

\* A caller invokes sendOnionRequest(p, d).
CallSendOnionRequest(p, d) ==
    /\ Log(IF DestinationError(d) # Null THEN {}
           ELSE {Line(614)} \cup PathLines(onionPathLength), {})
    /\ UNCHANGED outsideBuilder
    /\ UNCHANGED generatorVars
    /\ pc = "idle"
    /\ builds < MaxBuilds
    /\ call' = "sendOnionRequest"
    /\ UNCHANGED cancelSignal
    /\ payload' = Some(p)
    /\ customDestination' = d
    /\ IF DestinationError(d) # Null
       THEN /\ pc' = "done"
            /\ ret' = [kind |-> "error", error |-> DestinationError(d)[1]]
            /\ UNCHANGED pathVars
       ELSE EnterBuildOnionPath(onionPathLength)
    /\ UNCHANGED <<builderVars, buildVars, http>>

\* The URL of the entry node's onion endpoint.
EntryUrl(entryNode) ==
    [protocol |-> "https", host |-> entryNode.ip, port |-> entryNode.port,
     path |-> "/onion_req/v2"]

\* sendRawOnionRequest up to the POST.  Reading entryNode.ip of an undefined
\* entry node throws before the try block.
SendRawPost ==
    /\ Quiet
    /\ UNCHANGED outsideBuilder
    /\ UNCHANGED generatorVars
    /\ pc = "send_raw"
    /\ IF onionRequest[1].entryNode = Null
       THEN /\ pc' = "done"
            /\ ret' = [kind |-> "error",
                       error |-> MkError("TypeError",
                           "Cannot read properties of undefined (reading 'ip')", <<>>)]
            /\ UNCHANGED http
       ELSE /\ pc' = "http_wait"
            /\ http' = Append(http,
                   [method |-> "POST",
                    url |-> EntryUrl(onionRequest[1].entryNode[1]),
                    contentType |-> "application/octet-stream",
                    body |-> onionRequest[1].encryptedPayload,
                    answer |-> Null])
            /\ UNCHANGED ret
    /\ UNCHANGED <<builderVars, callVars, pathVars, buildVars>>

\* Response headers: a content type naming text or bytes.
TextHeaders == [content_type |-> "text/plain"]
BinaryHeaders == [content_type |-> "application/octet-stream"]

\* What the entry node's HTTP channel may answer: a status with headers
\* and body bytes (the text ok, a two-byte character, bytes that are no
\* UTF-8, nothing), or no answer at all.
HttpOutcomes ==
    {[kind |-> "status", status |-> 200, headers |-> TextHeaders,
      data |-> <<111, 107>>],
     [kind |-> "status", status |-> 200, headers |-> TextHeaders,
      data |-> <<195, 169>>],
     [kind |-> "status", status |-> 200, headers |-> BinaryHeaders,
      data |-> <<255, 1>>],
     [kind |-> "status", status |-> 204, headers |-> TextHeaders,
      data |-> <<>>],
     [kind |-> "status", status |-> 500, headers |-> TextHeaders,
      data |-> <<111, 107>>],
     [kind |-> "failure", status |-> 0, headers |-> TextHeaders,
      data |-> <<>>],
     [kind |-> "timeout", status |-> 0, headers |-> TextHeaders,
      data |-> <<>>]}

\* Buffer.toString(): the bytes decoded as UTF-8 into code points.  One-
\* and two-byte sequences decode; any other byte becomes U+FFFD.
Utf8Decode(bytes) ==
    LET IsLead(k) == bytes[k] >= 194 /\ bytes[k] <= 223
        IsTrail(k) == bytes[k] >= 128 /\ bytes[k] <= 191
        Consumed(k) == k > 1 /\ IsLead(k - 1) /\ IsTrail(k)
        decoded == [k \in 1..Len(bytes) |->
            IF Consumed(k) THEN -1
            ELSE IF bytes[k] < 128 THEN bytes[k]
            ELSE IF IsLead(k) /\ k < Len(bytes) /\ IsTrail(k + 1)
            THEN (bytes[k] - 192) * 64 + (bytes[k + 1] - 128)
            ELSE 65533]
    IN  SelectSeq(decoded, LAMBDA c : c # -1)

RECURSIVE Utf8Encode(_)
Utf8Encode(chars) ==
    IF chars = <<>> THEN <<>>
    ELSE (IF Head(chars) < 128 THEN <<Head(chars)>>
          ELSE IF Head(chars) < 2048
          THEN <<192 + (Head(chars) \div 64), 128 + (Head(chars) % 64)>>
          ELSE <<224 + (Head(chars) \div 4096),
                 128 + ((Head(chars) \div 64) % 64),
                 128 + (Head(chars) % 64)>>)
         \o Utf8Encode(Tail(chars))

\* The POST settles: axios resolves on a 2xx status and rejects otherwise.
\* The resolved branch returns status, headers and the decoded body; the
\* catch wraps every rejection into a new Error.
HttpSettle ==
    /\ UNCHANGED outsideBuilder
    /\ UNCHANGED generatorVars
    /\ pc = "http_wait"
    /\ \E outcome \in HttpOutcomes :
        /\ http' = [http EXCEPT ![Len(http)].answer = Some(outcome)]
        /\ Log(IF outcome.kind = "status" /\ outcome.status \in 200..299
               THEN {} ELSE {Line(663)}, {})
        /\ IF outcome.kind = "status" /\ outcome.status >= 200 /\ outcome.status < 300
           THEN ret' = [kind |-> "response", statusCode |-> outcome.status,
                        headers |-> outcome.headers,
                        body |-> Utf8Decode(outcome.data)]
           ELSE ret' = [kind |-> "error",
                        error |-> MkError("Error", "Failed to send onion request", <<>>)]
    /\ pc' = "done"
    /\ UNCHANGED <<builderVars, callVars, pathVars, buildVars>>

\* The caller asks to cancel the call while its POST is in flight.
\* sendOnionRequest and sendRawOnionRequest take no signal and pass none to
\* axios: the request stays in flight and settles as it would have.
Cancel ==
    /\ Quiet
    /\ UNCHANGED outsideBuilder
    /\ UNCHANGED generatorVars
    /\ pc = "http_wait"
    /\ ~cancelSignal
    /\ cancelSignal' = TRUE
    /\ UNCHANGED <<builderVars, pc, call, payload, customDestination, pathVars,
                   buildVars, http, ret>>

\* ------------------------------------------------------------ the builder

\* setOnionPathLength(length).
CallSetOnionPathLength(length) ==
    /\ Quiet
    /\ UNCHANGED outsideBuilder
    /\ UNCHANGED generatorVars
    /\ pc = "idle"
    /\ onionPathLength' = length
    /\ UNCHANGED <<serviceNodes, pc, callVars, pathVars, buildVars, http, ret>>

\* The call has returned or thrown; its locals are gone.
Return ==
    /\ console' = {} /\ UNCHANGED logLevel
    /\ UNCHANGED outsideBuilder
    /\ pc = "done"
    /\ pc' = "idle"
    /\ call' = "none" /\ payload' = Null /\ customDestination' = Null
    /\ cancelSignal' = FALSE
    /\ pathLength' = 0 /\ activeNodes' = <<>> /\ selectedNodes' = <<>>
    /\ usedIndices' = {} /\ pickOrder' = <<>>
    /\ onionPath' = <<>> /\ entropy' = NoEntropy /\ rngPos' = 0
    /\ finalEphemeralKeyPair' = NoKeyPair /\ blob' = <<>>
    /\ ephemeralKeyForNextHop' = <<>> /\ i' = 0 /\ layers' = <<>>
    /\ onionRequest' = Null /\ http' = <<>> /\ ret' = NoReturn
    /\ builds' = 0 /\ generated' = <<>>
    /\ UNCHANGED builderVars

\* The call has returned or thrown and the instance is used again: the
\* locals are gone, the process's random generator and the record of what
\* it gave out go on.
ReturnOnInstance ==
    /\ console' = {} /\ UNCHANGED logLevel
    /\ UNCHANGED outsideBuilder
    /\ pc = "done"
    /\ pc' = "idle"
    /\ call' = "none" /\ payload' = Null /\ customDestination' = Null
    /\ cancelSignal' = FALSE
    /\ pathLength' = 0 /\ activeNodes' = <<>> /\ selectedNodes' = <<>>
    /\ usedIndices' = {} /\ pickOrder' = <<>>
    /\ onionPath' = <<>>
    /\ finalEphemeralKeyPair' = NoKeyPair /\ blob' = <<>>
    /\ ephemeralKeyForNextHop' = <<>> /\ i' = 0 /\ layers' = <<>>
    /\ onionRequest' = Null /\ http' = <<>> /\ ret' = NoReturn
    /\ UNCHANGED <<builderVars, entropy, rngPos, generatorVars>>

Next ==
    \/ \E n \in 0..MaxPathLen : CallSetOnionPathLength(n)
    \/ \E n \in 0..MaxPathLen : CallBuildOnionPath(n)
    \/ \E p \in Payloads, d \in DestinationArgs : CallSendOnionRequest(p, d)
    \/ \E p \in Payloads, path \in DirectPaths, d \in DestinationArgs :
           CallBuildOnionRequest(p, path, d)
    \/ PathDraw
    \/ PathReturn
    \/ BuildEntry
    \/ BuildLayer
    \/ BuildReturn
    \/ SendRawPost
    \/ HttpSettle
    \/ Cancel
    \/ Return

Spec == Init /\ [][Next]_vars

\* buildOnionPath alone, with a random source that gives every index again
\* and again, and a process that goes on running.
NextPath ==
    \/ \E n \in 0..MaxPathLen : CallBuildOnionPath(n)
    \/ PathDraw
    \/ PathReturn
    \/ Return

SpecPathFair ==
    /\ Init
    /\ [][NextPath]_vars
    /\ \A randomIndex \in 0..(MaxNodes - 1) : WF_vars(DrawIndex(randomIndex))
    /\ WF_vars(PathReturn)

\* ------------------------------------------- one instance, several calls

\* A directory entry whose x25519 key is present but is no key: the
\* builder copies the directory's fields without looking at them.
BadKey(k) == [Node(k) EXCEPT !.pubkey_x25519 = <<122, 122>>]   \* "zz"

\* The lists the instance is constructed with.
InstanceLists == {<<Node(1), Node(2)>>, <<Node(1), BadKey(2)>>}

InitInstance ==
    /\ serviceNodes \in InstanceLists
    /\ onionPathLength \in 0..MaxPathLen
    /\ pc = "idle"
    /\ IdleLocals
    /\ logLevel \in {LogLevel_DEV, LogLevel_PROD}
    /\ NoCrypto
    /\ NoServer
    /\ NoFetch

\* sendOnionRequest calls one after the other on the same instance.
NextInstance ==
    \/ \E p \in Payloads : CallSendOnionRequest(p, Some(DestinationA))
    \/ PathDraw
    \/ PathReturn
    \/ BuildEntry
    \/ BuildLayer
    \/ BuildReturn
    \/ SendRawPost
    \/ HttpSettle
    \/ ReturnOnInstance

SpecInstance == InitInstance /\ [][NextInstance]_vars

\* ------------------------------------------- HopEncryption on its own

\* Largest secret scalar of the keypairs the two sides hold.
MaxScalar == 2

KeyPairs ==
    {[publicKey |-> scalarMultBase(<<k>>), secretKey |-> <<k>>] : k \in 1..MaxScalar}

\* What the sender seals: nothing, or two bytes.
Plaintexts == {<<>>, <<7, 8>>}

\* The enc_type strings a caller passes.
EncTypes == {"aes-gcm", "gcm", "xchacha20", "chacha20-poly1305"}

MethodCall(method, encType, flag, result) ==
    [method |-> method, encType |-> encType, flag |-> flag, result |-> result]

\* Two parties hold a keypair each; no builder is involved.
InitCrypto ==
    /\ serviceNodes = <<>>
    /\ onionPathLength = 0
    /\ pc = "idle"
    /\ IdleLocals
    /\ logLevel = LogLevel_DEV
    /\ sender \in KeyPairs
    /\ receiver \in KeyPairs
    /\ plaintext \in Plaintexts
    /\ wire = <<>> /\ wireKind = "none" /\ lastCall = NoCall
    /\ NoServer
    /\ NoFetch

\* The sender calls deriveSymmetricKey(own secret, hop's public key, flag).
CallDeriveSymmetricKey(isForDecryption) ==
    /\ Quiet
    /\ wireKind = "none"
    /\ lastCall' = MethodCall("deriveSymmetricKey", "", isForDecryption,
                       deriveSymmetricKey(sender.secretKey, receiver.publicKey,
                                          isForDecryption))
    /\ UNCHANGED <<sender, receiver, plaintext, wire, wireKind>>
    /\ UNCHANGED builderState

\* The sender calls encrypt(encType, plaintext, hop's public key).
CallEncrypt(encType) ==
    /\ wireKind = "none"
    /\ \E e \in Entropy :
        LET iv == randomBytes(IV_LEN, Draw(e, 0))
            sealed == encrypt(HopEncryption(sender.secretKey, sender.publicKey, FALSE),
                              encType, plaintext, receiver.publicKey, iv)
        IN  /\ lastCall' = MethodCall("encrypt", encType, FALSE, sealed)
            /\ Log({}, IF encType \in {"aes-gcm", "gcm"}
                       THEN encryptAESGCMOutput(
                                HopEncryption(sender.secretKey, sender.publicKey, FALSE),
                                receiver.publicKey, iv)
                       ELSE {})
            /\ IF sealed.ok
               THEN wire' = sealed.value /\ wireKind' = "sealed"
               ELSE UNCHANGED <<wire, wireKind>>
    /\ UNCHANGED <<sender, receiver, plaintext>>
    /\ UNCHANGED builderState

\* A byte with one of its eight bits inverted.
FlipBit(byte, bit) ==
    IF (byte \div (2 ^ bit)) % 2 = 1 THEN byte - 2 ^ bit ELSE byte + 2 ^ bit

\* One bit of the sealed bytes changes on the way.
Tamper(pos, bit) ==
    /\ Quiet
    /\ wireKind = "sealed"
    /\ lastCall.method = "encrypt"
    /\ pos \in 1..Len(wire)
    /\ wire' = [wire EXCEPT ![pos] = FlipBit(wire[pos], bit)]
    /\ wireKind' = "flipped"
    /\ UNCHANGED <<sender, receiver, plaintext, lastCall>>
    /\ UNCHANGED builderState

\* Only the first n bytes arrive, fewer than an IV and a tag.
Truncate(n) ==
    /\ Quiet
    /\ wireKind = "sealed"
    /\ lastCall.method = "encrypt"
    /\ n < IV_LEN + TAG_LEN
    /\ wire' = Slice(wire, 0, n)
    /\ wireKind' = "short"
    /\ UNCHANGED <<sender, receiver, plaintext, lastCall>>
    /\ UNCHANGED builderState

\* The hop calls decrypt(encType, received bytes, senderPubKey).
CallDecrypt(encType, senderPubKey) ==
    /\ Log({}, IF encType \in {"aes-gcm", "gcm", "xchacha20"} THEN {Line(109)} ELSE {})
    /\ wireKind # "none"
    /\ lastCall.method = "encrypt"
    /\ lastCall' = MethodCall("decrypt", encType, senderPubKey = sender.publicKey,
                       decrypt(HopEncryption(receiver.secretKey, receiver.publicKey, TRUE),
                               encType, wire, senderPubKey))
    /\ UNCHANGED <<sender, receiver, plaintext, wire, wireKind>>
    /\ UNCHANGED builderState

NextCrypto ==
    \/ \E isForDecryption \in BOOLEAN : CallDeriveSymmetricKey(isForDecryption)
    \/ \E encType \in EncTypes : CallEncrypt(encType)
    \/ \E pos \in 1..Len(wire), bit \in 0..7 : Tamper(pos, bit)
    \/ \E n \in 0..(IV_LEN + TAG_LEN - 1) : Truncate(n)
    \/ \E encType \in EncTypes, senderPubKey \in {sender.publicKey, <<>>} :
           CallDecrypt(encType, senderPubKey)

SpecCrypto == InitCrypto /\ [][NextCrypto]_vars

\* ------------------------------------------------------ fetchServiceNodes

\* OXEN_SEED_NODES, in the order of the source.
OXEN_SEED_NODES ==
    <<"http://seed1.getsession.org/json_rpc",
      "http://seed2.getsession.org/json_rpc",
      "http://seed3.getsession.org/json_rpc">>

\* for (let attempt = 0; attempt < 5; attempt++)
MAX_ATTEMPTS == 5
\* if (attempt < 4)
LAST_ATTEMPT == 4
\* setTimeout(resolve, 10000)
BACKOFF_MS == 10000
\* { timeout: 10000 } of the POST to a seed node
SEED_TIMEOUT_MS == 10000

\* JavaScript values as a response carries them.
Undefined == [t |-> "undefined"]
JsString(s) == [t |-> "string", s |-> s]
JsObject(members) == [t |-> "object", members |-> members]
JsArray(items) == [t |-> "array", items |-> items]

\* v.name, read through the && chain of the source: undefined when v has
\* no such member.
Member(v, name) ==
    IF v.t = "object" /\ name \in DOMAIN v.members
    THEN v.members[name] ELSE Undefined

\* Whether a value passes an if (...) test.
Truthy(v) ==
    CASE v.t = "undefined" -> FALSE
      [] v.t = "string" -> v.s # <<>>
      [] OTHER -> TRUE

\* An entry of service_node_states as a seed node sends it: the fields
\* asked for and the height the daemon adds.
StateEntry(k) ==
    [pubkey_ed25519 |-> Node(k).pubkey_ed25519,
     pubkey_x25519 |-> Node(k).pubkey_x25519,
     public_ip |-> Node(k).public_ip,
     storage_port |-> Node(k).storage_port,
     storage_lmq_port |-> Node(k).storage_lmq_port,
     swarm_id |-> Node(k).swarm_id,
     height |-> 1000 + k]

\* The callback of service_node_states.map.
ToServiceNode(node) ==
    [pubkey_ed25519 |-> node.pubkey_ed25519,
     pubkey_x25519 |-> node.pubkey_x25519,
     public_ip |-> node.public_ip,
     storage_port |-> node.storage_port,
     storage_lmq_port |-> node.storage_lmq_port,
     swarm_id |-> node.swarm_id]

\* The n entries seed node number seed knows best: its view of the network
\* starts at node number seed.
SeedList(seed, n) ==
    [k \in 1..n |-> StateEntry(((seed + k - 2) % MaxNodes) + 1)]

\* How a POST to a seed node settles: axios rejects, or resolves with data.
Rejected(message) == [kind |-> "rejected", message |-> message]
Answered(data) == [kind |-> "response", status |-> 200, data |-> data]

\* HTTP 500: axios rejects every status outside 2xx.
StatusError == Rejected("Request failed with status code 500")
\* No answer within the timeout.
TimedOut == Rejected("timeout of 10000ms exceeded")
\* A body that is no JSON: axios hands the text over as it came.
MalformedJson == Answered(JsString(<<123, 34, 114>>))
\* A JSON-RPC error: an object without result.
RpcError == Answered(JsObject([error |-> JsString(<<98, 117, 115, 121>>)]))
\* A result whose service_node_states is an object, no array.
NotAList ==
    Answered(JsObject([result |->
        JsObject([service_node_states |-> JsObject([count |-> Undefined])])]))
FailingAnswers == {StatusError, TimedOut, MalformedJson, RpcError, NotAList}

\* A valid answer of seed node number seed to get_n_service_nodes(n).
ValidAnswer(seed, n) ==
    Answered(JsObject([result |->
        JsObject([service_node_states |-> JsArray(SeedList(seed, n))])]))

\* A seed node fails in one way during its first rounds and answers
\* validly from round number `until` on.
RecoveryRounds == {0, 1, MAX_ATTEMPTS}
Behaviours ==
    {[fails |-> StatusError, until |-> 0]}
    \cup {[fails |-> f, until |-> u] :
             f \in FailingAnswers, u \in RecoveryRounds \ {0}}
Networks == [1..Len(OXEN_SEED_NODES) -> Behaviours]

\* What the POST of round `round` to seed node number seed settles with.
Respond(seed, round, n) ==
    IF round >= network[seed].until
    THEN ValidAnswer(seed, n)
    ELSE network[seed].fails

\* The body of the try block after the POST has settled: the mapped list
\* (the return), nothing (the test fails and the block ends), or an
\* exception: the rejection, or the TypeError of calling map on a value
\* that has none.
TryBlock(response) ==
    IF response.kind = "rejected" THEN Throw(response.message)
    ELSE LET data == response.data
             result == Member(data, "result")
             states == Member(result, "service_node_states")
         IN  IF Truthy(data) /\ Truthy(result) /\ Truthy(states)
             THEN IF states.t = "array"
                  THEN Ok(Some([k \in 1..Len(states.items) |->
                                   ToServiceNode(states.items[k])]))
                  ELSE Throw("response.data.result.service_node_states.map is not a function")
             ELSE Ok(Null)

\* catch with the exception propagating to the caller.
CatchSeedError_Rethrow(error) == Some(error)

\* catch (error) { warn; continue }: nothing leaves the catch block.
CatchSeedError(error) == Null

\* if (attempt < 4) with the test always true.
BackoffDue_EveryRound(round) == TRUE

\* if (attempt < 4): whether the backoff follows round `round`.
BackoffDue(round) == round < LAST_ATTEMPT

\* The pc of a fetch that has returned or thrown: updateServiceNodes
\* resumes after its await, a direct caller has the result.
Finished == IF fetchCall = "updateServiceNodes" THEN "fetched" ELSE "done"

\* What a running send or build call holds, and the path length.
sendState == <<onionPathLength, pc, callVars, pathVars, buildVars, http, ret,
               generatorVars>>

\* A caller invokes fetchServiceNodes(n).
CallFetchServiceNodes(n) ==
    /\ Log({Line(257)}, {})
    /\ fetchPc = "idle"
    /\ fetchCall' = "fetchServiceNodes"
    /\ limit' = n
    /\ attempt' = 0
    /\ seedIndex' = 1
    /\ fetchPc' = "try"
    /\ UNCHANGED <<network, requests, waits, fetchRet, versions>>
    /\ UNCHANGED <<serviceNodes, sendState, cryptoVars, serverVars>>

\* A caller invokes updateServiceNodes(n), which calls fetchServiceNodes(n).
CallUpdateServiceNodes(n) ==
    /\ Log({Line(257)}, {})
    /\ fetchPc = "idle"
    /\ fetchCall' = "updateServiceNodes"
    /\ limit' = n
    /\ attempt' = 0
    /\ seedIndex' = 1
    /\ fetchPc' = "try"
    /\ UNCHANGED <<network, requests, waits, fetchRet, versions>>
    /\ UNCHANGED <<serviceNodes, sendState, cryptoVars, serverVars>>

\* The POST to the current seed node is issued.
FetchPost ==
    /\ Log({Line(275)}, {})
    /\ fetchPc = "try"
    /\ requests' = Append(requests,
           [url |-> OXEN_SEED_NODES[seedIndex], attempt |-> attempt,
            limit |-> limit, timeout |-> SEED_TIMEOUT_MS])
    /\ fetchPc' = "await"
    /\ UNCHANGED <<network, fetchCall, limit, attempt, seedIndex, waits,
                   fetchRet, versions>>
    /\ UNCHANGED <<serviceNodes, sendState, cryptoVars, serverVars>>

\* The start of the next round, or the throw after the last one.
NextRound ==
    /\ attempt' = attempt + 1
    /\ IF attempt + 1 < MAX_ATTEMPTS
       THEN /\ seedIndex' = 1
            /\ fetchPc' = "try"
            /\ UNCHANGED fetchRet
       ELSE /\ fetchPc' = Finished
            /\ fetchRet' = Throw(MkError("Error",
                   "Failed to fetch service nodes from all seed nodes after attempts",
                   <<>>))
            /\ UNCHANGED seedIndex

\* The end of one iteration of the inner loop: the next seed node, and
\* after the last one the backoff or the next round.
NextSeed ==
    IF seedIndex < Len(OXEN_SEED_NODES)
    THEN /\ seedIndex' = seedIndex + 1
         /\ fetchPc' = "try"
         /\ UNCHANGED <<attempt, waits, fetchRet>>
    ELSE IF BackoffDue(attempt)
    THEN /\ fetchPc' = "backoff"
         /\ waits' = Append(waits, [attempt |-> attempt, ms |-> BACKOFF_MS,
                                    after |-> Len(requests)])
         /\ UNCHANGED <<attempt, seedIndex, fetchRet>>
    ELSE /\ NextRound
         /\ UNCHANGED waits

\* The POST settles and the rest of the try block runs.
FetchSettle ==
    /\ fetchPc = "await"
    /\ LET tried == TryBlock(Respond(seedIndex, attempt, limit))
           returns == tried.ok /\ tried.value # Null
       IN  Log((IF returns THEN {Line(307)} ELSE {})
               \cup (IF ~tried.ok THEN {Line(314)} ELSE {})
               \cup (IF /\ ~returns
                        /\ tried.ok \/ CatchSeedError(tried.error) = Null
                        /\ seedIndex = Len(OXEN_SEED_NODES)
                        /\ BackoffDue(attempt)
                     THEN {Line(325)} ELSE {}),
               {})
    /\ LET tried == TryBlock(Respond(seedIndex, attempt, limit))
       IN  IF tried.ok /\ tried.value # Null
           THEN /\ fetchRet' = Ok(tried.value[1])
                /\ fetchPc' = Finished
                /\ UNCHANGED <<attempt, seedIndex, waits>>
           ELSE IF ~tried.ok /\ CatchSeedError(tried.error) # Null
           THEN /\ fetchRet' = Throw(CatchSeedError(tried.error)[1])
                /\ fetchPc' = Finished
                /\ UNCHANGED <<attempt, seedIndex, waits>>
           ELSE NextSeed
    /\ UNCHANGED <<network, fetchCall, limit, requests, versions>>
    /\ UNCHANGED <<serviceNodes, sendState, cryptoVars, serverVars>>

\* The backoff timer fires.
BackoffElapsed ==
    /\ Quiet
    /\ fetchPc = "backoff"
    /\ NextRound
    /\ UNCHANGED <<network, fetchCall, limit, requests, waits, versions>>
    /\ UNCHANGED <<serviceNodes, sendState, cryptoVars, serverVars>>

\* this.serviceNodes = realServiceNodes, with the new list merged into the
\* old one entry by entry.
RefreshedList_Merged(old, fetched) ==
    [k \in 1..Len(fetched) |->
        IF k % 2 = 1 /\ k <= Len(old) THEN old[k] ELSE fetched[k]]

\* this.serviceNodes = realServiceNodes.
RefreshedList(old, fetched) == fetched

\* updateServiceNodes resumes after its await: the assignment, or the
\* rethrow.  buildOnionPath has no await, so the resumption never falls
\* between its statements.
UpdateResume ==
    /\ Log(IF fetchRet.ok THEN {Line(344)} ELSE {Line(348)}, {})
    /\ fetchPc = "fetched"
    /\ pc # "path_loop"
    /\ fetchPc' = "done"
    /\ IF fetchRet.ok
       THEN /\ serviceNodes' = RefreshedList(serviceNodes, fetchRet.value)
            /\ versions' = versions \cup {fetchRet.value}
       ELSE UNCHANGED <<serviceNodes, versions>>
    /\ UNCHANGED <<network, fetchCall, limit, attempt, seedIndex, requests,
                   waits, fetchRet>>
    /\ UNCHANGED <<sendState, cryptoVars, serverVars>>

\* The caller has the outcome; the instance is ready for the next fetch.
ReturnFetch ==
    /\ Quiet
    /\ fetchPc = "done"
    /\ fetchPc' = "idle"
    /\ fetchCall' = "none"
    /\ limit' = 0
    /\ attempt' = 0
    /\ seedIndex' = 0
    /\ requests' = <<>>
    /\ waits' = <<>>
    /\ fetchRet' = NoReturn
    /\ UNCHANGED <<network, versions>>
    /\ UNCHANGED <<serviceNodes, sendState, cryptoVars, serverVars>>

\* An instance whose only use is fetchServiceNodes, in front of every
\* network.
InitDirectory ==
    /\ serviceNodes = <<Node(1), Node(2)>>
    /\ onionPathLength = 1
    /\ pc = "idle"
    /\ IdleLocals
    /\ logLevel = LogLevel_PROD
    /\ NoCrypto
    /\ NoServer
    /\ network \in Networks
    /\ IdleFetch
    /\ versions = {serviceNodes}

NextDirectory ==
    \/ \E n \in 1..MaxNodes : CallFetchServiceNodes(n)
    \/ FetchPost
    \/ FetchSettle
    \/ BackoffElapsed
    \/ ReturnFetch

SpecDirectory == InitDirectory /\ [][NextDirectory]_vars

\* The networks a refresh runs against: the seed nodes answer at once,
\* or the first ones of the list answer 500 during the first round.
RefreshNetworks ==
    {nw \in Networks :
        /\ \A seed \in 1..Len(OXEN_SEED_NODES) :
               nw[seed].fails = StatusError /\ nw[seed].until <= 1
        /\ nw[2].until <= nw[1].until
        /\ nw[3].until <= nw[2].until}

\* An instance in use while its list is refreshed.
InitRefresh ==
    /\ serviceNodes = <<Node(1), Node(2)>>
    /\ onionPathLength = 2
    /\ pc = "idle"
    /\ IdleLocals
    /\ logLevel = LogLevel_PROD
    /\ NoCrypto
    /\ NoServer
    /\ network \in RefreshNetworks
    /\ IdleFetch
    /\ versions = {serviceNodes}

\* sendOnionRequest and buildOnionPath calls on the instance, and
\* updateServiceNodes calls whose steps fall between theirs.
NextRefresh ==
    \/ CallSendOnionRequest(PayloadEmpty, Some(DestinationA))
    \/ \E n \in 1..2 : CallBuildOnionPath(n)
    \/ PathDraw
    \/ PathReturn
    \/ BuildEntry
    \/ BuildLayer
    \/ BuildReturn
    \/ SendRawPost
    \/ HttpSettle
    \/ Return
    \/ \E n \in {2, MaxNodes} : CallUpdateServiceNodes(n)
    \/ FetchPost
    \/ FetchSettle
    \/ BackoffElapsed
    \/ UpdateResume
    \/ ReturnFetch

SpecRefresh == InitRefresh /\ [][NextRefresh]_vars

\* The networks a list is watched against: every seed node answers, the
\* first one answers 500 in the first round, or none ever answers.
FrameNetworks ==
    {nw \in Networks :
        /\ \A seed \in 1..Len(OXEN_SEED_NODES) : nw[seed].fails = StatusError
        /\ nw[1].until \in {0, 1, MAX_ATTEMPTS}
        /\ nw[2].until = (IF nw[1].until = MAX_ATTEMPTS THEN MAX_ATTEMPTS ELSE 0)
        /\ nw[3].until = nw[2].until}

\* An instance on which every public method is called.
InitFrame ==
    /\ serviceNodes = <<Node(1), Node(2)>>
    /\ onionPathLength = 1
    /\ pc = "idle"
    /\ IdleLocals
    /\ logLevel = LogLevel_PROD
    /\ NoCrypto
    /\ NoServer
    /\ network \in FrameNetworks
    /\ IdleFetch
    /\ versions = {serviceNodes}

\* Calls of buildOnionPath, buildOnionRequest and sendOnionRequest beside
\* calls of fetchServiceNodes and updateServiceNodes.
NextFrame ==
    \/ CallSendOnionRequest(PayloadEmpty, Some(DestinationA))
    \/ CallBuildOnionPath(1)
    \/ CallBuildOnionRequest(PayloadEmpty, <<PathNode(Node(1))>>, Some(DestinationA))
    \/ PathDraw
    \/ PathReturn
    \/ BuildEntry
    \/ BuildLayer
    \/ BuildReturn
    \/ SendRawPost
    \/ HttpSettle
    \/ Return
    \/ CallUpdateServiceNodes(MaxNodes)
    \/ CallFetchServiceNodes(MaxNodes)
    \/ FetchPost
    \/ FetchSettle
    \/ BackoffElapsed
    \/ UpdateResume
    \/ ReturnFetch

SpecFrame == InitFrame /\ [][NextFrame]_vars

\* The networks whose first two seed nodes are down for good; the third
\* is down for good as well or comes back after the first round.
DownNetworks ==
    {nw \in Networks :
        /\ nw[1].until = MAX_ATTEMPTS
        /\ nw[2].until = MAX_ATTEMPTS
        /\ nw[3].until # 0}

InitExhaustion ==
    /\ InitDirectory
    /\ network \in DownNetworks

\* The event loop settles every POST (each carries a timeout) and fires
\* every timer, and runs the code that follows.
SpecDirectoryFair ==
    /\ InitExhaustion
    /\ [][NextDirectory]_vars
    /\ WF_vars(FetchPost)
    /\ WF_vars(FetchSettle)
    /\ WF_vars(BackoffElapsed)

\* ------------------------------------------------------------ server.ts

K_raw_body == <<114, 97, 119, 95, 98, 111, 100, 121>>         \* raw_body
K_original_binary_length ==
    <<111, 114, 105, 103, 105, 110, 97, 108, 95, 98, 105, 110, 97, 114, 121, 95, 108, 101, 110, 103, 116, 104>>
K_body_type == <<98, 111, 100, 121, 95, 116, 121, 112, 101>>  \* body_type
K_parse_error == <<112, 97, 114, 115, 101, 95, 101, 114, 114, 111, 114>>  \* parse_error
K_msg == <<109, 115, 103>>                                    \* msg
S_send_message == <<115, 101, 110, 100, 95, 109, 101, 115, 115, 97, 103, 101>>  \* send_message
S_binary_cleaned == <<98, 105, 110, 97, 114, 121, 95, 99, 108, 101, 97, 110, 101, 100>>  \* binary_cleaned

\* First position at or after `from` where character c stands, 0 if none.
IndexFrom(s, c, from) ==
    LET hits == {q \in from..Len(s) : s[q] = c}
    IN  IF hits = {} THEN 0 ELSE CHOOSE q \in hits : \A r \in hits : q <= r

\* Op applied to the value, the value computed once.
Bind(value, Op(_)) == CHOOSE r \in {Op(v) : v \in {value}} : TRUE

\* Position k of s follows an odd run of backslashes that starts at or
\* after `from`: the character there is escaped.
IsEscaped(s, from, k) ==
    LET stops == {r \in from..(k - 1) : s[r] # 92}
    IN  IF stops = {} THEN (k - from) % 2 = 1
        ELSE (k - 1 - CHOOSE r \in stops : \A h \in stops : h <= r) % 2 = 1

\* JSON.parse of a string literal starting behind its opening quote: the
\* characters up to the closing quote, a backslash taking the next
\* character with it; control characters and a missing quote are errors.
ScanString(s, q) ==
    LET closes == {k \in q..Len(s) : s[k] = 34 /\ ~IsEscaped(s, q, k)}
        Escapes(k) == s[k] = 92 /\ ~IsEscaped(s, q, k)
    IN  IF closes = {} THEN [ok |-> FALSE]
        ELSE Bind(CHOOSE k \in closes : \A h \in closes : k <= h,
                  LAMBDA close :
            IF \E k \in q..(close - 1) :
                   \/ s[k] < 32
                   \/ Escapes(k) /\ s[k + 1] \notin {34, 92}
            THEN [ok |-> FALSE]
            ELSE [ok |-> TRUE,
                  value |-> SelectSeq(
                      [k \in 1..(close - q) |->
                          IF Escapes(q + k - 1) THEN -1 ELSE s[q + k - 1]],
                      LAMBDA c : c # -1),
                  next |-> close + 1])

\* The digits of a number starting at q.
ScanDigits(s, q) ==
    LET stops == {k \in q..Len(s) : s[k] < 48 \/ s[k] > 57}
    IN  Bind(IF stops = {} THEN Len(s) + 1
             ELSE CHOOSE k \in stops : \A h \in stops : k <= h,
             LAMBDA next :
        [ok |-> TRUE,
         value |-> SumRange([k \in q..(next - 1) |->
                                (s[k] - 48) * 10 ^ (next - 1 - k)], q, next - 1),
         next |-> next])

\* JSON.parse of one value at position q: a string, a natural number or an
\* object; no white space, as JSON.stringify writes it.
RECURSIVE ParseValue(_, _)
RECURSIVE ParseMembers(_, _, _)
ParseValue(s, q) ==
    IF q > Len(s) THEN [ok |-> FALSE]
    ELSE IF s[q] = 34
    THEN Bind(ScanString(s, q + 1), LAMBDA str :
             IF str.ok THEN [str EXCEPT !.value = JStr(str.value)] ELSE str)
    ELSE IF s[q] >= 48 /\ s[q] <= 57
    THEN Bind(ScanDigits(s, q), LAMBDA num :
             [num EXCEPT !.value = JNum(num.value)])
    ELSE IF s[q] = 123
    THEN IF q + 1 <= Len(s) /\ s[q + 1] = 125
         THEN [ok |-> TRUE, value |-> JObj(<<>>), next |-> q + 2]
         ELSE ParseMembers(s, q + 1, <<>>)
    ELSE [ok |-> FALSE]
ParseMembers(s, q, acc) ==
    IF q > Len(s) \/ s[q] # 34 THEN [ok |-> FALSE]
    ELSE Bind(ScanString(s, q + 1), LAMBDA key :
        IF ~key.ok \/ key.next > Len(s) \/ s[key.next] # 58 THEN [ok |-> FALSE]
        ELSE Bind(ParseValue(s, key.next + 1), LAMBDA val :
            IF ~val.ok \/ val.next > Len(s) THEN [ok |-> FALSE]
            ELSE Bind(Append(acc, <<key.value, val.value>>), LAMBDA members :
                IF s[val.next] = 44
                THEN ParseMembers(s, val.next + 1, members)
                ELSE IF s[val.next] = 125
                THEN [ok |-> TRUE, value |-> JObj(members), next |-> val.next + 1]
                ELSE [ok |-> FALSE])))

\* JSON.parse(text): the value, or a SyntaxError when the text is no JSON
\* value or something follows the value.
JSONparse(text) ==
    Bind(text, LAMBDA t :
        Bind(ParseValue(t, 1), LAMBDA parsed :
            IF parsed.ok /\ parsed.next = Len(t) + 1
            THEN Ok(parsed.value)
            ELSE Throw("SyntaxError")))

\* cleanCorruptedPrefix: the string from its first opening brace on.
cleanCorruptedPrefix(bodyString) ==
    LET jsonStart == IndexFrom(bodyString, 123, 1)
    IN  IF jsonStart > 1
        THEN SubSeq(bodyString, jsonStart, Len(bodyString))
        ELSE bodyString

\* The inner for loop of parseBinaryOnionRequest: braceCount after the
\* character at position q, counting from braceStart, every brace counted,
\* inside a string or not; braceEnd is the first position where it is zero,
\* 0 if there is none.
BraceCount(s, braceStart, q) ==
    Cardinality({k \in braceStart..q : s[k] = 123})
        - Cardinality({k \in braceStart..q : s[k] = 125})
MatchBrace(s, braceStart) ==
    LET ends == {q \in braceStart..Len(s) :
                    s[q] = 125 /\ BraceCount(s, braceStart, q) = 0}
    IN  IF ends = {} THEN 0 ELSE CHOOSE q \in ends : \A h \in ends : q <= h

\* The while loop of parseBinaryOnionRequest: jsonObjects, from currentPos.
RECURSIVE ExtractObjects(_, _)
ExtractObjects(s, currentPos) ==
    IF currentPos > Len(s) THEN <<>>
    ELSE Bind(IndexFrom(s, 123, currentPos), LAMBDA braceStart :
        IF braceStart = 0 THEN <<>>
        ELSE Bind(MatchBrace(s, braceStart), LAMBDA braceEnd :
            IF braceEnd = 0 THEN <<>>
            ELSE Bind(JSONparse(SubSeq(s, braceStart, braceEnd)), LAMBDA parsed :
                (IF parsed.ok THEN <<parsed.value>> ELSE <<>>)
                    \o ExtractObjects(s, braceEnd + 1))))

\* parseBinaryOnionRequest(body).
parseBinaryOnionRequest(body) ==
    Bind(Utf8Decode(body), LAMBDA bodyString :
    Bind(cleanCorruptedPrefix(bodyString), LAMBDA cleanedBody :
    Bind(IF IndexFrom(cleanedBody, 123, 1) > 0 /\ IndexFrom(cleanedBody, 125, 1) > 0
         THEN ExtractObjects(cleanedBody, 1)
         ELSE <<>>, LAMBDA jsonObjects :
        IF Len(jsonObjects) > 0 THEN jsonObjects[1]
        ELSE Bind(JSONparse(cleanedBody), LAMBDA whole :
            IF whole.ok THEN whole.value
            ELSE JObj(<< <<K_raw_body, JStr(cleanedBody)>>,
                         <<K_original_binary_length, JNum(Len(body))>>,
                         <<K_body_type, JStr(S_binary_cleaned)>>,
                         <<K_parse_error, JStr(<<>>)>> >>)))))

S_delete_message == <<100, 101, 108, 101, 116, 101, 95, 109, 101, 115, 115, 97, 103, 101>>  \* delete_message
S_sample_id == <<49, 50, 51, 52, 53>>                         \* 12345
S_object_key == <<91, 111, 98, 106, 101, 99, 116, 32, 79, 98, 106, 101, 99, 116, 93>>  \* [object Object]
S_undefined_key == <<117, 110, 100, 101, 102, 105, 110, 101, 100>>  \* undefined

\* The last clock reading the model follows.
MaxClock == 1

\* body[key] of a parsed JSON value: the member's value, undefined when
\* body is no object or has no such member.
Property(v, key) ==
    LET hits == IF v.t = "obj" THEN {k \in 1..Len(v.m) : v.m[k][1] = key} ELSE {}
    IN  IF hits = {} THEN Undefined
        ELSE v.m[CHOOSE k \in hits : \A h \in hits : h <= k][2]

\* !v.
Falsy(v) ==
    \/ v.t = "undefined"
    \/ v.t = "str" /\ v.s = <<>>
    \/ v.t = "num" /\ v.n = 0

\* The property name db[msgId] looks up.
PropertyKey(v) ==
    CASE v.t = "str" -> v.s
      [] v.t = "num" -> Decimal(v.n)
      [] v.t = "undefined" -> S_undefined_key
      [] OTHER -> S_object_key

\* Request bodies as the middleware hands them over: express.json's parsed
\* object, or the Buffer of express.raw.
Buffer(bytes) == [t |-> "buffer", bytes |-> bytes]
JsonRequest(body) == [contentType |-> "application/json", body |-> body]
BinaryRequest(bytes) ==
    [contentType |-> "application/octet-stream", body |-> Buffer(bytes)]
TextRequest(bytes) == [contentType |-> "text/plain", body |-> Buffer(bytes)]

\* parseRequestBody(req): the body object, or null.
parseRequestBody(request) ==
    IF request.body.t = "obj" THEN Some(request.body)
    ELSE IF request.contentType = "application/octet-stream"
    THEN Some(parseBinaryOnionRequest(request.body.bytes))
    ELSE Null

\* db[msgId]: the stored message, or undefined.
Stored(store, key) ==
    IF \E e \in store : e.msgId = key
    THEN CHOOSE e \in store : e.msgId = key
    ELSE Undefined

\* The sample message of get_message.
SampleMessage(time) ==
    [msgId |-> S_sample_id, content |-> "Hello, this is a sample message!",
     timestamp |-> time, sender |-> "user123"]

\* The message send_message stores.
NewMessage(params, time) ==
    [msgId |-> Decimal(time), msg |-> Property(params, K_msg),
     status |-> "sent", timestamp |-> time, recipient |-> "user789"]

\* A handler that throws is answered by Express with status 500.
Thrown(name) == [status |-> 500, error |-> name]
BadRequest == [status |-> 400, error |-> "Invalid method"]
Success(method, data) ==
    [status |-> 200, success |-> TRUE, method |-> method, data |-> data]

\* The handler of POST /oxen/custom-endpoint/lsrpc, from the outcome of
\* parseRequestBody on, with the store at the given time: the response and
\* the store it leaves.
Handle(parsed, store, time) ==
    LET body == parsed[1]
        method == Property(body, K_method)
        params == Property(body, K_params)
        msgId == Property(params, K_msgId)
        data == Stored(store, PropertyKey(msgId))
        msg == NewMessage(params, time)
    IN  IF parsed = Null
        THEN [res |-> Thrown("TypeError"), db |-> store]
        ELSE IF Falsy(method)
                \/ method \notin {JStr(S_get_message), JStr(S_send_message)}
        THEN [res |-> BadRequest, db |-> store]
        ELSE IF params = Undefined
        THEN [res |-> Thrown("TypeError"), db |-> store]
        ELSE IF method = JStr(S_get_message)
        THEN [res |-> Success("get_message",
                              IF Falsy(msgId) \/ data = Undefined
                              THEN SampleMessage(time) ELSE data),
              db |-> store]
        ELSE [res |-> Success("send_message", msg),
              db |-> {e \in store : e.msgId # msg.msgId} \cup {msg}]

\* A string of n characters c.
Repeat(c, n) == [k \in 1..n |-> c]

\* {"method": method} as the README documents it, and with params.
MethodOnly(method) == JObj(<< <<K_method, JStr(method)>> >>)
GetMessage(msgId) ==
    JObj(<< <<K_method, JStr(S_get_message)>>,
            <<K_params, JObj(<< <<K_msgId, JStr(msgId)>> >>)>> >>)
SendMessage(msg) ==
    JObj(<< <<K_method, JStr(S_send_message)>>,
            <<K_params, JObj(<< <<K_msg, JStr(msg)>> >>)>> >>)

\* The message texts sent: two short ones, a closing brace, and the texts
\* that make the payload 123 and 125 characters long.
ShortTexts == {<<97>>, <<98>>}
BraceText == <<125>>
PaddedText(length) == Repeat(97, length - Len(Stringify(SendMessage(<<>>))))
Texts == ShortTexts \cup {BraceText, PaddedText(123), PaddedText(125)}

\* The payloads a client frames for the server.
FramedPayloads ==
    {PayloadEmpty, PayloadGet, GetMessage(Decimal(0))}
        \cup {SendMessage(text) : text \in Texts \ ShortTexts}

\* The documented bodies, bodies without a usable method, and complete
\* requests.
DocumentedBodies == {MethodOnly(S_get_message), MethodOnly(S_send_message)}
InvalidBodies == {PayloadEmpty, MethodOnly(S_delete_message), MethodOnly(<<>>)}
ServerRequests ==
    {JsonRequest(body) : body \in DocumentedBodies \cup InvalidBodies}
        \cup {JsonRequest(GetMessage(Decimal(time))) : time \in 0..MaxClock}
        \cup {JsonRequest(PayloadGet)}
        \cup {JsonRequest(SendMessage(text)) : text \in ShortTexts}
        \cup {BinaryRequest(FinalData(p)) : p \in FramedPayloads}
        \cup {TextRequest(Stringify(PayloadGet))}

\* parseRequestBody on each of the requests.
ParsedBodies == [request \in ServerRequests |-> parseRequestBody(request)]

\* One request is handled.
Lsrpc(request) ==
    LET handled == Handle(ParsedBodies[request], db, now)
    IN  /\ Quiet
        /\ req' = Some(request)
        /\ res' = Some(handled.res)
        /\ db' = handled.db
        /\ sent' = IF handled.res.status = 200
                      /\ handled.res.method = "send_message"
                   THEN sent \cup {handled.res.data}
                   ELSE sent
        /\ UNCHANGED now
        /\ UNCHANGED <<builderVars, sendState, cryptoVars, directoryVars>>

\* A millisecond passes.
Tick ==
    /\ Quiet
    /\ now < MaxClock
    /\ now' = now + 1
    /\ UNCHANGED <<db, req, res, sent>>
    /\ UNCHANGED <<builderVars, sendState, cryptoVars, directoryVars>>

\* A server that has handled nothing, and no OnionBuilder at work.
InitServer ==
    /\ serviceNodes = <<>>
    /\ onionPathLength = 0
    /\ pc = "idle"
    /\ IdleLocals
    /\ logLevel = LogLevel_PROD
    /\ NoCrypto
    /\ NoServer
    /\ NoFetch

NextServer ==
    \/ \E request \in ServerRequests : Lsrpc(request)
    \/ Tick

SpecServer == InitServer /\ [][NextServer]_vars

\* ------------------------------------------------- reading an envelope

\* First position of needle in hay, 0 when it does not occur.
IndexOf(hay, needle) ==
    LET hits == {q \in 1..(Len(hay) - Len(needle) + 1) :
                    SubSeq(hay, q, q + Len(needle) - 1) = needle}
    IN  IF hits = {} THEN 0 ELSE CHOOSE q \in hits : \A r \in hits : q <= r

\* The characters of s from position q up to the next double quote.
RECURSIVE UpToQuote(_, _)
UpToQuote(s, q) ==
    IF q > Len(s) \/ s[q] = 34 THEN <<>> ELSE <<s[q]>> \o UpToQuote(s, q + 1)

\* Whether the JSON text has a member named key.
HasMember(json, key) == IndexOf(json, Quoted(key) \o <<58>>) > 0

\* The string value of member key of the JSON text (empty when absent).
MemberString(json, key) ==
    LET marker == Quoted(key) \o <<58, 34>>
        at == IndexOf(json, marker)
    IN  IF at = 0 THEN <<>> ELSE UpToQuote(json, at + Len(marker))

\* The secret key of the service node a path node was projected from.
SecretOfHop(pathNode) ==
    NodeSecret(CHOOSE k \in 1..MaxNodes :
                   Node(k).pubkey_x25519 = pathNode.x25519_pubkey)

\* What hop k (0-based) of the path does with the blob it receives: open it
\* with its own secret key and the ephemeral key it was given, and split
\* the frame.  The result lists the hops from k on.
NoPeel == [ok |-> FALSE, plain |-> <<>>, inner |-> <<>>, tail |-> <<>>]

RECURSIVE PeelFrom(_, _, _, _)
PeelFrom(received, ephemeralHex, path, k) ==
    IF k >= Len(path) THEN <<>>
    ELSE LET hop == HopEncryption(SecretOfHop(path[k + 1]),
                                  fromHex(path[k + 1].x25519_pubkey), TRUE)
             opened == decryptAESGCM(hop, received, fromHex(ephemeralHex))
             frame == IF opened.ok THEN DecodeFrame(opened.value) ELSE opened
         IN  IF ~opened.ok \/ ~frame.ok THEN <<NoPeel>>
             ELSE <<[ok |-> TRUE, plain |-> opened.value,
                     inner |-> frame.value.inner, tail |-> frame.value.tail]>>
                  \o PeelFrom(frame.value.inner,
                              MemberString(frame.value.tail, K_ephemeral_key),
                              path, k + 1)

\* The hops' views of a wrapper sent along a path.
Peel(wrapper, path) ==
    LET outer == DecodeFrame(wrapper)
    IN  IF ~outer.ok THEN <<NoPeel>>
        ELSE PeelFrom(outer.value.inner,
                      MemberString(outer.value.tail, K_ephemeral_key), path, 0)

\* --------------------------------------------------------------- claims

\* The validity predicate of the data model: the four required fields of
\* a service node are non-empty.
RequiredFieldsPresent(node) ==
    /\ Len(node.pubkey_ed25519) > 0
    /\ Len(node.pubkey_x25519) > 0
    /\ Len(node.public_ip) > 0
    /\ node.storage_port > 0

ValidCandidates == SelectSeq(serviceNodes, RequiredFieldsPresent)

\* The path a finished buildOnionPath handed on, if it did.
PathReturned ==
    \/ pc = "done" /\ call = "buildOnionPath" /\ ret.kind = "path"
    \/ pc \in {"build_entry", "build_loop", "send_raw", "http_wait"}

ReturnedPath == IF call = "buildOnionPath" THEN ret.path ELSE onionPath

\* buildOnionRequest has returned its result.
Built == onionRequest # Null

\* buildOnionRequest returns its result in this state; the result and the
\* history of its layers do not change afterwards.
BuildReturned == pc = "send_raw" /\ onionRequest # Null

PathLen == Len(onionPath)

\* The history record of the layer sealed for hop h (0-based).
LayerOfHop(h) == layers[PathLen - h]

\* C1: whenever at least N >= 1 candidates pass the validity predicate, the
\* path buildOnionPath(N) returns has exactly N hops, each hop is the
\* projection of a valid candidate, and the hops come from N different
\* entries of the candidate list (equal entries count as different nodes).
C1_PathWellFormed ==
    (PathReturned /\ pathLength >= 1 /\ Len(ValidCandidates) >= pathLength) =>
        /\ Len(ReturnedPath) = pathLength
        /\ Len(pickOrder) = pathLength
        /\ \A k \in 1..Len(ReturnedPath) :
              /\ pickOrder[k] \in 0..(Len(ValidCandidates) - 1)
              /\ LET candidate == ValidCandidates[pickOrder[k] + 1]
                 IN  ReturnedPath[k] =
                        [ed25519_pubkey |-> candidate.pubkey_ed25519,
                         x25519_pubkey |-> candidate.pubkey_x25519,
                         ip |-> candidate.public_ip,
                         port |-> candidate.storage_port]
        /\ \A j, k \in 1..Len(pickOrder) : j # k => pickOrder[j] # pickOrder[k]

\* C1 witness: buildOnionPath(3) has returned a path over a list whose
\* first two entries are equal, so both copies are on the path.
C1_Witness ==
    /\ pc = "done" /\ call = "buildOnionPath" /\ ret.kind = "path"
    /\ pathLength = 3
    /\ Len(serviceNodes) = 3
    /\ serviceNodes[1] = serviceNodes[2]
    /\ Len(ret.path) = 3

\* Path selection ended with an error because too few candidates are valid.
InsufficientCandidates ==
    /\ pc = "done"
    /\ call \in {"buildOnionPath", "sendOnionRequest"}
    /\ ret.kind = "error"
    /\ Len(ValidCandidates) < pathLength

\* An error that says "insufficient candidates" with the counts.
IsInsufficientError(e, need, got) ==
    /\ e.message = "Not enough active service nodes. Need N, got M"
    /\ e.detail = <<need, got>>

\* C2: when fewer than N candidates are valid, the error that reaches the
\* caller identifies the failure as insufficient candidates and carries N
\* and the number of valid candidates, itself or as its cause.
C2_InsufficientCausePreserved ==
    InsufficientCandidates =>
        \/ IsInsufficientError(ret.error, pathLength, Len(ValidCandidates))
        \/ /\ ret.error.cause # Null
           /\ IsInsufficientError(ret.error.cause[1], pathLength,
                                  Len(ValidCandidates))

\* C3: a path length of 0 is rejected: buildOnionPath(0) returns no path,
\* and sendOnionRequest with path length 0 builds no wrapper and issues no
\* HTTP request; no wrapper has the payload frame under zero layers.
C3_ZeroLengthRejected ==
    /\ (call = "buildOnionPath" /\ pathLength = 0 /\ pc = "done") =>
           ret.kind = "error"
    /\ (call = "sendOnionRequest" /\ DestinationError(customDestination) = Null
           /\ pathLength = 0) =>
           /\ pc \notin {"build_entry", "build_loop", "send_raw", "http_wait"}
           /\ onionRequest = Null
           /\ http = <<>>
    /\ Built => Len(layers) >= 1

\* The wrapper of the result, and the frame it decodes to.
Wrapper == onionRequest[1].encryptedPayload
WrapperFrame == DecodeFrame(Wrapper)

\* The blob a layer was wrapped around: the innermost frame for the first
\* layer sealed, the previous layer's ciphertext for the others.
LayerDecodes(k) == DecodeFrame(layers[k].layerData).ok
InnerOfLayer(k) == DecodeFrame(layers[k].layerData).value.inner
TailOfLayer(k) == DecodeFrame(layers[k].layerData).value.tail

\* C4: for a path of length N >= 1 the build performs exactly N seals, the
\* one for hop h sealed to P[h].x25519_pubkey, in the order h = N-1 .. 0 and
\* each around the result of the one before, so the payload frame lies
\* under N layers; the wrapper itself is a plain frame around the last one.
C4_LayersPerHop ==
    (BuildReturned /\ PathLen >= 1) =>
        /\ Len(layers) = PathLen
        /\ \A k \in 1..Len(layers) :
              /\ layers[k].hop = PathLen - k
              /\ layers[k].recipient =
                     fromHex(onionPath[layers[k].hop + 1].x25519_pubkey)
              /\ layers[k].blob # layers[k].layerData
              /\ decryptAESGCM(
                     HopEncryption(SecretOfHop(onionPath[layers[k].hop + 1]),
                                   layers[k].recipient, TRUE),
                     layers[k].blob,
                     layers[k].ephemeralKeyPair.publicKey)
                 = Ok(layers[k].layerData)
              /\ LayerDecodes(k)
              /\ InnerOfLayer(k) =
                     IF k = 1 THEN FinalData(payload[1]) ELSE layers[k - 1].blob
        /\ WrapperFrame.ok
        /\ WrapperFrame.value.inner = layers[PathLen].blob
        /\ WrapperFrame.value.tail =
               Stringify(WrapperMeta(onionRequest[1].ephemeralKey))

\* C4 witness: an envelope over three hops with three different keys.
C4_Witness ==
    /\ Built /\ PathLen = 3 /\ Len(layers) = 3
    /\ Cardinality({onionPath[k].x25519_pubkey : k \in 1..3}) = 3

\* C5: the ephemeral_key in the routing JSON of an intermediate hop h is
\* the public key of the keypair whose secret sealed layer h+1, and the
\* ephemeral_key of the wrapper metadata (and the result's ephemeralKey) is
\* the public key of the keypair whose secret sealed layer 0.
SealedBy(layer, keyPairPublic) ==
    /\ keyPairPublic = scalarMultBase(layer.ephemeralKeyPair.secretKey)
    /\ encryptAESGCM(HopEncryption(layer.ephemeralKeyPair.secretKey,
                                   keyPairPublic, FALSE),
                     layer.layerData, layer.recipient, layer.iv)
       = Ok(layer.blob)

C5_EphemeralKeyChaining ==
    (BuildReturned /\ PathLen >= 1) =>
        /\ Len(layers) = PathLen
        /\ \A k \in 1..PathLen : LayerDecodes(k)
        /\ WrapperFrame.ok
        /\ \A h \in 0..(PathLen - 2) :
              SealedBy(LayerOfHop(h + 1),
                       fromHex(MemberString(TailOfLayer(PathLen - h),
                                            K_ephemeral_key)))
        /\ SealedBy(LayerOfHop(0),
                    fromHex(MemberString(WrapperFrame.value.tail,
                                         K_ephemeral_key)))
        /\ SealedBy(LayerOfHop(0), onionRequest[1].ephemeralKey)

\* C5 witness: an envelope over three hops whose four keypairs differ.
C5_Witness ==
    /\ Built /\ PathLen = 3 /\ Len(layers) = 3
    /\ Cardinality({layers[k].ephemeralKeyPair.publicKey : k \in 1..3}
                   \cup {finalEphemeralKeyPair.publicKey}) = 4

\* What the hops of the path see when the wrapper travels along it.
HopViews == Peel(Wrapper, onionPath)

\* The text {"headers":{}}.
HeadersOnly == <<123, 34, 104, 101, 97, 100, 101, 114, 115, 34, 58, 123, 125, 125>>

\* The innermost frame as the wire format gives it:
\* u32_LE(len(payload)) || JSON(payload) || {"headers":{}}.
InnermostFrame ==
    LET json == Stringify(payload[1])
    IN  U32LE(Len(json)) \o json \o HeadersOnly

\* C6: the routing JSON an intermediate hop h < N-1 reads is exactly
\* {destination: P[h+1].ed25519_pubkey, ephemeral_key, enc_type: "aes-gcm"}
\* with none of host/port/protocol/target; the terminal hop reads exactly
\* {host, port, protocol, target} of the destination with no destination or
\* ephemeral_key; the tail of the innermost frame is {"headers":{}}.
C6_RoutingPerHop ==
    (BuildReturned /\ PathLen >= 1) =>
      LET views == HopViews
      IN
        /\ Len(views) = PathLen
        /\ \A h \in 0..(PathLen - 1) : views[h + 1].ok
        /\ \A h \in 0..(PathLen - 2) :
              LET tail == views[h + 1].tail
              IN  /\ tail = Stringify(JObj(<<
                         <<K_destination, JStr(onionPath[h + 2].ed25519_pubkey)>>,
                         <<K_ephemeral_key,
                           JStr(MemberString(tail, K_ephemeral_key))>>,
                         <<K_enc_type, JStr(S_aes_gcm)>> >>))
                  /\ \A key \in {K_host, K_port, K_protocol, K_target} :
                        ~HasMember(tail, key)
        /\ LET tail == views[PathLen].tail
               dest == customDestination[1]
           IN  /\ tail = Stringify(JObj(<<
                      <<K_host, JStr(dest.host)>>,
                      <<K_port, JNum(dest.port)>>,
                      <<K_protocol, JStr(dest.protocol)>>,
                      <<K_target, JStr(dest.target)>> >>))
               /\ ~HasMember(tail, K_destination)
               /\ ~HasMember(tail, K_ephemeral_key)
        /\ LET inner == DecodeFrame(views[PathLen].inner)
           IN  inner.ok /\ inner.value.tail = HeadersOnly

\* C6 witness: an envelope over a single hop, whose one layer carries the
\* destination routing, has been built for destination b.org.
C6_Witness ==
    /\ Built /\ PathLen = 1
    /\ customDestination = Some(DestinationB)
    /\ HasMember(HopViews[1].tail, K_host)

\* C7: opening the wrapper's blob with hop 0's secret key and the wrapper's
\* ephemeral_key, and each inner blob with the next hop's secret key and
\* the ephemeral_key the layer before advertised, yields at every hop
\* exactly the plaintext sealed for it (the next hop's ciphertext plus the
\* hop's routing JSON); the last peel yields the innermost frame.
C7_PeelRoundTrip ==
    (BuildReturned /\ PathLen >= 1) =>
      LET views == HopViews
      IN
        /\ Len(views) = PathLen
        /\ Len(layers) = PathLen
        /\ \A h \in 0..(PathLen - 1) :
              /\ views[h + 1].ok
              /\ views[h + 1].plain = LayerOfHop(h).layerData
              /\ views[h + 1].tail = Stringify(LayerOfHop(h).routingInfo)
              /\ h < PathLen - 1 =>
                     views[h + 1].inner = LayerOfHop(h + 1).blob
        /\ views[PathLen].inner = InnermostFrame

\* C7 witness: all three hops of a three-hop envelope open their layer, for
\* the get_message payload.
C7_Witness ==
    /\ Built /\ PathLen = 3
    /\ payload = Some(PayloadGet)
    /\ Len(HopViews) = 3
    /\ \A h \in 1..3 : HopViews[h].ok

\* The call is a sendOnionRequest whose destination is valid and for which
\* at least N >= 1 candidates are valid.
BuildCanSucceed ==
    /\ call = "sendOnionRequest"
    /\ DestinationError(customDestination) = Null
    /\ pathLength >= 1
    /\ Len(ValidCandidates) >= pathLength

C9_SealedLength ==
    \A k \in 1..Len(layers) :
        LET previous == IF k = 1 THEN InnermostFrame ELSE layers[k - 1].blob
        IN  /\ Len(layers[k].blob) = 12 + Len(layers[k].layerData) + 16
            /\ SubSeq(layers[k].blob, 1, 12) = layers[k].iv
            /\ Len(layers[k].layerData) =
                   4 + Len(previous) + Len(Stringify(layers[k].routingInfo))

\* C9 witness: the second layer of a build has just been sealed.
C9_Witness ==
    /\ pc = "build_loop" /\ Len(layers) = 2
    /\ Len(layers[2].blob) > Len(layers[1].blob)

\* C10: the wrapper is longer than the outermost blob, every blob is
\* longer than the one sealed before it, the innermost sealed blob is
\* longer than the innermost frame, and that frame is longer than the
\* payload bytes.
C10_SizeMonotone ==
    (BuildReturned /\ PathLen >= 1) =>
        /\ Len(layers) = PathLen
        /\ Len(Wrapper) > Len(layers[PathLen].blob)
        /\ \A k \in 2..PathLen : Len(layers[k].blob) > Len(layers[k - 1].blob)
        /\ Len(layers[1].blob) > Len(InnermostFrame)
        /\ LayerDecodes(1)
        /\ InnerOfLayer(1) = InnermostFrame
        /\ Len(InnermostFrame) > Len(Stringify(payload[1]))

\* C10 witness: a three-hop envelope around the empty payload {}.
C10_Witness ==
    /\ Built /\ PathLen = 3 /\ Len(layers) = 3
    /\ payload = Some(PayloadEmpty)
    /\ Len(Stringify(payload[1])) = 2

\* Both sides of a HopEncryption exchange hold their keypairs.
KeysHeld == sender # NoKeyPair /\ receiver # NoKeyPair

\* C11: for the keypairs a (sender) and b (hop), deriveSymmetricKey(a.secret,
\* b.public) = deriveSymmetricKey(b.secret, a.public) whatever the
\* isForDecryption flags are; a blob the sender sealed to the hop's public
\* key is opened by the hop's secret key with the sender's public key.
C11_KeyAgreement ==
    KeysHeld =>
        /\ \A f1, f2 \in BOOLEAN :
              LET ab == deriveSymmetricKey(sender.secretKey, receiver.publicKey, f1)
                  ba == deriveSymmetricKey(receiver.secretKey, sender.publicKey, f2)
              IN  ab.ok /\ ba.ok /\ ab.value = ba.value
        /\ lastCall.method = "deriveSymmetricKey" =>
              lastCall.result =
                  deriveSymmetricKey(receiver.secretKey, sender.publicKey,
                                     ~lastCall.flag)
        /\ (/\ lastCall.method = "decrypt" /\ lastCall.encType = "aes-gcm"
            /\ lastCall.flag /\ wireKind = "sealed") =>
              lastCall.result = Ok(plaintext)

\* C11 witness: a hop whose keypair differs from the sender's has opened
\* the two sealed bytes.
C11_Witness ==
    /\ KeysHeld /\ sender # receiver
    /\ plaintext = <<7, 8>>
    /\ wireKind = "sealed"
    /\ lastCall.method = "decrypt" /\ lastCall.encType = "aes-gcm"
    /\ lastCall.result = Ok(<<7, 8>>)

\* The keyPair() calls of the build that is running or has just returned.
IsThisBuild(g) == g.build = builds
ThisBuild == SelectSeq(generated, IsThisBuild)

\* C12: a build over N hops calls nacl.box.keyPair N+1 times, the first
\* result being the final keypair and the (k+1)-th the keypair that seals
\* the k-th layer; no two layers of a build share a keypair, and no keypair
\* of a build was given out to an earlier build on the same instance.
C12_FreshKeys ==
    /\ \A j, k \in 1..Len(generated) :
          j # k => generated[j].keyPair.publicKey # generated[k].keyPair.publicKey
    /\ BuildReturned =>
          /\ Len(ThisBuild) = PathLen + 1
          /\ Len(layers) = PathLen
          /\ ThisBuild[1].keyPair = finalEphemeralKeyPair
          /\ \A k \in 1..Len(layers) :
                /\ layers[k].ephemeralKeyPair = ThisBuild[k + 1].keyPair
                /\ SealedBy(layers[k], ThisBuild[k + 1].keyPair.publicKey)
                /\ layers[k].ephemeralKeyPair # finalEphemeralKeyPair
                /\ \A j \in 1..Len(layers) :
                      j # k => layers[j].ephemeralKeyPair # layers[k].ephemeralKeyPair
                /\ \A j \in 1..Len(generated) :
                      generated[j].build < builds =>
                          generated[j].keyPair # layers[k].ephemeralKeyPair

\* C12 witness: the second build on an instance has returned an envelope
\* over two hops, after a first build over two hops.
C12_Witness ==
    /\ BuildReturned /\ builds = 2 /\ PathLen = 2
    /\ Len(generated) = 6
    /\ Cardinality({generated[k].keyPair.publicKey : k \in 1..6}) = 6

\* The enc_type values that reach decryptAESGCM.
OpensAsAesGcm(encType) == encType \in {"aes-gcm", "gcm"}

\* C13: opening fails and yields no plaintext in both error cases.  Bytes
\* shorter than IV plus tag (28) are refused as too short, whatever sender
\* key comes with them, so before any key is derived; sealed bytes with one
\* bit inverted fail the authentication of crypto.subtle.decrypt.
C13_OpenFails ==
    lastCall.method = "decrypt" =>
        /\ wireKind \in {"short", "flipped"} => ~lastCall.result.ok
        /\ (wireKind = "short" /\ OpensAsAesGcm(lastCall.encType)) =>
              /\ Len(wire) < 28
              /\ lastCall.result.error.message = "Ciphertext too short for AES-GCM"
        /\ (wireKind = "flipped" /\ OpensAsAesGcm(lastCall.encType)
                /\ lastCall.flag) =>
              /\ Len(wire) >= 28
              /\ lastCall.result.error.name = "OperationError"

\* C13 witness: the hop was handed the sealed two bytes with one bit
\* inverted, together with the sender's key, and could not open them.
C13_Witness ==
    /\ lastCall.method = "decrypt" /\ lastCall.encType = "aes-gcm"
    /\ lastCall.flag
    /\ wireKind = "flipped" /\ plaintext = <<7, 8>>
    /\ ~lastCall.result.ok

\* C14: AES-GCM is the only cipher.  encrypt and decrypt called with an
\* enc_type that does not name AES-GCM ("aes-gcm", or its short form "gcm")
\* throw the unsupported-type error and return no bytes; in particular
\* decrypt("xchacha20", ...) opens nothing.
C14_OnlyAesGcm ==
    (lastCall.method \in {"encrypt", "decrypt"}
        /\ ~OpensAsAesGcm(lastCall.encType)) =>
        /\ ~lastCall.result.ok
        /\ lastCall.result.error.message = "Unsupported encryption type"

\* Path selection of the running sendOnionRequest failed.
PathSelectionFailed ==
    /\ call = "sendOnionRequest" /\ pc = "done"
    /\ DestinationError(customDestination) = Null
    /\ Len(activeNodes) < pathLength

\* A seal of the backward loop of the running sendOnionRequest failed.
SealFailed ==
    /\ call = "sendOnionRequest" /\ pc = "done"
    /\ Len(layers) < Len(onionPath)

\* Every layer of the history is the seal of its plaintext to its hop.
AllLayersSealed ==
    /\ Len(layers) = Len(onionPath)
    /\ \A k \in 1..Len(layers) :
          /\ layers[k].hop = Len(onionPath) - k
          /\ SealedBy(layers[k], layers[k].ephemeralKeyPair.publicKey)

\* C15: when path selection or a seal of the loop fails, sendOnionRequest
\* ends with an error, no OnionRequestResult exists and no HTTP request was
\* issued; an OnionRequestResult exists, and a POST to /onion_req/v2 is
\* issued, only with all N layers sealed, and the POST carries the wrapper
\* around the outermost of them.
C15_NoPartialEnvelope ==
    /\ (PathSelectionFailed \/ SealFailed) =>
          /\ ret.kind = "error"
          /\ onionRequest = Null
          /\ http = <<>>
    /\ onionRequest # Null => AllLayersSealed
    /\ http # <<>> =>
          /\ onionRequest # Null
          /\ AllLayersSealed
          /\ http[1].url.path = "/onion_req/v2"
          /\ http[1].body = Wrapper
          /\ WrapperFrame.ok
          /\ PathLen >= 1 => WrapperFrame.value.inner = layers[PathLen].blob

\* C15 witness: over a two-hop path the terminal hop's layer was sealed and
\* the seal for the entry hop failed; the call ended with that error.
C15_Witness ==
    /\ SealFailed
    /\ Len(onionPath) = 2 /\ Len(layers) = 1
    /\ ret.kind = "error" /\ ret.error.message = "bad p size"
    /\ http = <<>>

\* C16: an invalid destination (missing, or with an empty host, port,
\* protocol or target) stops sendOnionRequest before path selection, before
\* any keypair is generated and before any HTTP request; and whenever an
\* envelope exists, built by sendOnionRequest or by buildOnionRequest
\* called directly, its destination is valid.
C16_DestinationValidated ==
    /\ (call = "sendOnionRequest" /\ DestinationError(customDestination) # Null) =>
          /\ pc = "done" /\ ret.kind = "error"
          /\ activeNodes = <<>> /\ selectedNodes = <<>> /\ pickOrder = <<>>
          /\ finalEphemeralKeyPair = NoKeyPair /\ generated = <<>>
          /\ onionRequest = Null
          /\ http = <<>>
    /\ onionRequest # Null => DestinationError(customDestination) = Null
    /\ http # <<>> => DestinationError(customDestination) = Null

\* The seed node and the round of the k-th POST of a fetch.
SeedOf(k) == ((k - 1) % Len(OXEN_SEED_NODES)) + 1
RoundOf(k) == (k - 1) \div Len(OXEN_SEED_NODES)

\* The POSTs a fetch issues when no seed node ever answers validly.
AllRequests == 1..(MAX_ATTEMPTS * Len(OXEN_SEED_NODES))

\* Whether the k-th POST of the running fetch meets a failing endpoint.
FailsAt(k) == Respond(SeedOf(k), RoundOf(k), limit) \in FailingAnswers

\* The nodes seed node number seed lists, as ServiceNode values.
NodesOf(seed, n) == [k \in 1..n |-> Node(((seed + k - 2) % MaxNodes) + 1)]

\* First seed 500, second malformed JSON, third valid.
ScenarioNetwork ==
    /\ network[1].fails = StatusError /\ network[1].until > 0
    /\ network[2].fails = MalformedJson /\ network[2].until > 0
    /\ network[3].until = 0

\* C17: the seed nodes are asked in list order, round after round; a
\* failing one (status 500, timeout, malformed body, no result, no list)
\* never makes fetchServiceNodes throw but is followed by the next one;
\* the list of the first valid answer is returned and no POST follows it;
\* with 500, malformed JSON, valid the third seed's nodes are returned.
C17_SeedFallback ==
    /\ \A k \in 1..Len(requests) :
          /\ requests[k].url = OXEN_SEED_NODES[SeedOf(k)]
          /\ requests[k].attempt = RoundOf(k)
    /\ \A k \in 1..(Len(requests) - 1) : FailsAt(k)
    /\ fetchPc = "await" => seedIndex = SeedOf(Len(requests))
    /\ fetchPc = "try" =>
          /\ \A k \in 1..Len(requests) : FailsAt(k)
          /\ seedIndex = SeedOf(Len(requests) + 1)
          /\ attempt = RoundOf(Len(requests) + 1)
    /\ (fetchPc = "done" /\ ~fetchRet.ok) =>
          /\ \A k \in AllRequests : FailsAt(k)
          /\ Len(requests) = MAX_ATTEMPTS * Len(OXEN_SEED_NODES)
    /\ (fetchPc = "done" /\ \E k \in AllRequests : ~FailsAt(k)) =>
          LET first == CHOOSE k \in AllRequests :
                           ~FailsAt(k) /\ \A j \in 1..(k - 1) : FailsAt(j)
          IN  /\ fetchRet = Ok(NodesOf(SeedOf(first), limit))
              /\ Len(requests) = first
    /\ (fetchPc = "done" /\ ScenarioNetwork) =>
          /\ fetchRet = Ok(NodesOf(3, limit))
          /\ Len(requests) = 3

\* Scenario B has run: 500, malformed JSON, then the third seed's nodes.
C17_Witness ==
    /\ fetchPc = "done" /\ fetchCall = "fetchServiceNodes"
    /\ ScenarioNetwork
    /\ Len(requests) = 3
    /\ fetchRet.ok /\ fetchRet.value = NodesOf(3, limit)

\* Every seed node fails in every round.
AllSeedsFail ==
    \A seed \in 1..Len(OXEN_SEED_NODES) : network[seed].until >= MAX_ATTEMPTS

\* What an exhausted fetch has done so far, and how it ends.
ExhaustionBounded ==
    AllSeedsFail =>
        /\ Len(requests) <= MAX_ATTEMPTS * Len(OXEN_SEED_NODES)
        /\ \A k \in 1..Len(requests) : requests[k].attempt < MAX_ATTEMPTS
        /\ Len(waits) <= MAX_ATTEMPTS - 1
        /\ \A k \in 1..Len(waits) :
              /\ waits[k].ms = BACKOFF_MS
              /\ waits[k].attempt = k - 1
              /\ waits[k].after = k * Len(OXEN_SEED_NODES)
        /\ fetchPc = "backoff" =>
              Len(requests) = Len(waits) * Len(OXEN_SEED_NODES)
        /\ fetchPc = "done" =>
              /\ ~fetchRet.ok
              /\ fetchRet.error.message =
                    "Failed to fetch service nodes from all seed nodes after attempts"
              /\ Len(requests) = MAX_ATTEMPTS * Len(OXEN_SEED_NODES)
              /\ Len(waits) = MAX_ATTEMPTS - 1

\* C18: when every seed node fails in every round, fetchServiceNodes makes
\* 5 rounds over the seed list (15 POSTs at most), awaits the 10 s backoff
\* after each of the first four rounds and not after the fifth, and then
\* ends by throwing the "Failed to fetch service nodes" error: it returns
\* no list, and it does end.
C18_Exhaustion ==
    /\ []ExhaustionBounded
    /\ (AllSeedsFail /\ fetchPc = "try") ~> (fetchPc = "done" /\ ~fetchRet.ok)

\* An exhausted fetch has thrown after 15 POSTs and four waits.
C18_Witness ==
    /\ AllSeedsFail
    /\ fetchPc = "done" /\ ~fetchRet.ok
    /\ Len(requests) = MAX_ATTEMPTS * Len(OXEN_SEED_NODES)
    /\ Len(waits) = LAST_ATTEMPT

\* Whether every node of the path is the projection of an entry of list v.
TakenFrom(path, v) ==
    \A k \in 1..Len(path) : \E j \in 1..Len(v) : path[k] = PathNode(v[j])

\* C19: with updateServiceNodes running between the steps of
\* sendOnionRequest and buildOnionPath calls on the same instance, every
\* path, while it is selected and once it is built, consists of nodes of
\* one version of the list: the list before a refresh or the list a
\* refresh fetched, never some of each.
C19_RefreshAtomic ==
    /\ \E v \in versions : \A k \in 1..Len(selectedNodes) :
           \E j \in 1..Len(v) : selectedNodes[k] = v[j]
    /\ \E v \in versions : TakenFrom(onionPath, v)

\* A refresh replaced the list between the path selection and the end of
\* a send, and the path is one the new list cannot give.
C19_Witness ==
    /\ call = "sendOnionRequest" /\ pc = "http_wait"
    /\ Len(onionPath) = 2
    /\ Cardinality(versions) >= 2
    /\ ~TakenFrom(onionPath, serviceNodes)

\* The answer the POST of the running send settled with.
AnswerOfPost == http[1].answer[1]

\* Whether the POST was answered with a 2xx status.
Answered2xx == AnswerOfPost.kind = "status" /\ AnswerOfPost.status \in 200..299

\* One POST, to the entry node, carrying the wrapper; an error for every
\* answer that is no 2xx, and status code and headers of one that is.
OnePostToEntry ==
    /\ Len(http) <= 1
    /\ pc = "http_wait" => Len(http) = 1 /\ http[1].answer = Null
    /\ (call = "sendOnionRequest" /\ Len(http) = 1) =>
          /\ http[1].method = "POST"
          /\ http[1].url = [protocol |-> "https", host |-> onionPath[1].ip,
                            port |-> onionPath[1].port, path |-> "/onion_req/v2"]
          /\ http[1].body = Wrapper
          /\ layers[Len(layers)].hop = 0
          /\ layers[Len(layers)].recipient = fromHex(onionPath[1].x25519_pubkey)
    /\ (call = "sendOnionRequest" /\ pc = "done" /\ Len(http) = 1) =>
          /\ http[1].answer # Null
          /\ IF Answered2xx
             THEN /\ ret.kind = "response"
                  /\ ret.statusCode = AnswerOfPost.status
                  /\ ret.headers = AnswerOfPost.headers
             ELSE ret.kind = "error"

\* C20: a sendRawOnionRequest issues one POST and no second one, to
\* https://<ip>:<port>/onion_req/v2 of path[0], the hop whose key sealed
\* the outermost layer, with the wrapper as body; a network error, a
\* timeout and a status outside 2xx end the call with an error and no
\* response; a 2xx answer ends it with the answer's status code, headers
\* and body, the body being the bytes the entry node sent.
C20_Transport ==
    /\ OnePostToEntry
    /\ (call = "sendOnionRequest" /\ pc = "done" /\ Len(http) = 1
           /\ Answered2xx) =>
          Utf8Encode(ret.body) = AnswerOfPost.data

\* C21: once the caller has signalled cancellation while the POST is in
\* flight, the request is aborted (it gets no answer) and the call ends
\* with a 'cancelled' error, which is neither the timeout error nor the
\* connection error.
C21_Cancellation ==
    (cancelSignal /\ pc = "done") =>
        /\ http[1].answer = Null
        /\ ret.kind = "error"
        /\ ret.error.name = "Cancelled"

\* The stream of random values a test supplies for a golden vector.
SuppliedStream == [start |-> 2, step |-> 2]

\* C22: the build takes its random values from the stream supplied to it,
\* so a run is a function of its inputs and that stream: the layers are
\* produced innermost first, the final keypair is the stream's first value
\* and layer k is sealed with the keypair and the IV the stream holds at
\* positions 2k - 1 and 2k; two runs on the same inputs and stream agree
\* byte for byte.
C22_Determinism ==
    BuildReturned =>
        /\ \A k \in 1..Len(layers) : layers[k].hop = Len(onionPath) - k
        /\ finalEphemeralKeyPair = keyPair(Draw(SuppliedStream, 0))
        /\ \A k \in 1..Len(layers) :
              /\ layers[k].ephemeralKeyPair = keyPair(Draw(SuppliedStream, 2 * k - 1))
              /\ layers[k].iv = randomBytes(IV_LEN, Draw(SuppliedStream, 2 * k))

\* C23: at log level prod no step of an OnionBuilder operation writes to
\* the console; no symmetric key, IV or recipient key appears there.
C23_LogGating ==
    logLevel = LogLevel_PROD => console = {}

\* C24: a POST whose JSON body is {"method":"get_message"} or
\* {"method":"send_message"}, without params as the README documents it,
\* is answered with the success response of that method; a body whose
\* method is missing or is neither of the two is answered with status 400.
C24_LsrpcEndpoint ==
    res # Null =>
        /\ req[1].body = MethodOnly(S_get_message) =>
              res[1].status = 200 /\ res[1].method = "get_message"
        /\ req[1].body = MethodOnly(S_send_message) =>
              res[1].status = 200 /\ res[1].method = "send_message"
        /\ req[1].body \in InvalidBodies => res[1].status = 400

\* The message id the get_message request handled last asked for.
AskedId ==
    Property(Property(ParsedBodies[req[1]][1], K_params), K_msgId)

\* The request handled last was a get_message that was answered.
GetAnswered ==
    /\ res # Null
    /\ res[1].status = 200
    /\ res[1].method = "get_message"

\* C28: a get_message for a message id that a send_message was answered
\* with returns the message of that answer, whatever was sent and asked
\* since (sends within one clock millisecond included); a get_message for
\* an id that is not stored returns the sample message.
C28_MessageStore ==
    GetAnswered =>
        /\ \A e \in sent : JStr(e.msgId) = AskedId => res[1].data = e
        /\ (\A e \in sent : JStr(e.msgId) # AskedId) =>
              res[1].data.msgId = S_sample_id

\* C29: for every innermost frame the builder emits around a payload p,
\* u32_LE(len(p)) || p || {"headers":{}}, the body the server parses out
\* of the frame is p, whatever the payload's length (123 and 125 make the
\* first prefix byte a brace) and also when a string of p holds a brace.
C29_BinaryParsing ==
    \A p \in FramedPayloads :
        req = Some(BinaryRequest(FinalData(p))) =>
            ParsedBodies[req[1]] = Some(p)

\* A secret-key buffer after it was cleared: every byte zero.
Cleared(key) == [k \in 1..Len(key) |-> 0]

\* What the caller of buildOnionRequest holds once the call has returned.
ReturnedResult ==
    IF pc = "done" /\ call = "buildOnionRequest" /\ ret.kind = "request"
    THEN onionRequest
    ELSE Null

\* C25: once buildOnionRequest has returned, the ephemeral secret keys of
\* the request are cleared: the final keypair reachable from the returned
\* result holds no secret scalar any more.
C25_SecretLifetime ==
    ReturnedResult # Null =>
        LET held == ReturnedResult[1].finalEphemeralKeyPair.secretKey
        IN  held = Cleared(held)

\* The running fetch got its list from the first seed response that was
\* valid: every POST before the last one met a failing endpoint, and the
\* list is the one the last POST's seed node gave.
FirstValidResponse(list) ==
    /\ Len(requests) >= 1
    /\ \A k \in 1..(Len(requests) - 1) : FailsAt(k)
    /\ ~FailsAt(Len(requests))
    /\ list = NodesOf(SeedOf(Len(requests)), limit)

\* The step in which updateServiceNodes resumes with the fetch's outcome.
UpdateResumes ==
    /\ fetchCall = "updateServiceNodes"
    /\ fetchPc = "fetched"
    /\ fetchPc' = "done"

\* C26: the list of the instance changes only in the step in which a
\* successful updateServiceNodes assigns it, and then to exactly the list
\* of the first valid seed response; a failed updateServiceNodes passes
\* the error on and leaves the list as it is; no step of
\* fetchServiceNodes, buildOnionPath, buildOnionRequest or
\* sendOnionRequest changes the list or a node of it.
C26_ListFrame ==
    [][/\ serviceNodes' # serviceNodes =>
             /\ UpdateResumes
             /\ fetchRet.ok
             /\ serviceNodes' = fetchRet.value
             /\ FirstValidResponse(serviceNodes')
       /\ (UpdateResumes /\ ~fetchRet.ok) =>
             /\ serviceNodes' = serviceNodes
             /\ fetchRet' = fetchRet]_vars

\* A successful update has replaced the constructor's list by the list of
\* the second seed node, the first one having answered 500.
C26_Witness ==
    /\ fetchCall = "updateServiceNodes" /\ fetchPc = "done"
    /\ fetchRet.ok
    /\ Len(requests) = 2
    /\ serviceNodes = NodesOf(2, MaxNodes)
    /\ serviceNodes # <<Node(1), Node(2)>>

\* The selection loop is running.
InSelection == call = "buildOnionPath" /\ pc = "path_loop"

\* One pass of the loop: nothing changes, or one index that was not used
\* is marked and its node appended.
SelectionStep ==
    (InSelection /\ pc' = "path_loop") =>
        \/ UNCHANGED <<usedIndices, selectedNodes>>
        \/ \E randomIndex \in (0..(Len(activeNodes) - 1)) \ usedIndices :
              /\ usedIndices' = usedIndices \cup {randomIndex}
              /\ selectedNodes' = Append(selectedNodes, activeNodes[randomIndex + 1])

\* C27: with a random source that gives every index again and again, the
\* selection loop of buildOnionPath comes to its end; each pass adds one
\* index that was not used or changes nothing, and there are always as
\* many used indices as selected nodes.
C27_SelectionTerminates ==
    /\ [](InSelection => Cardinality(usedIndices) = Len(selectedNodes))
    /\ [][SelectionStep]_vars
    /\ InSelection ~> (call = "buildOnionPath" /\ pc = "done" /\ ret.kind = "path")

\* A selection of two nodes is complete and about to be returned.
C27_Witness ==
    /\ InSelection
    /\ pathLength = 2
    /\ Len(selectedNodes) = 2
    /\ Cardinality(usedIndices) = 2
    /\ Len(activeNodes) > 2

\* The ephemeral public keys an envelope announces: the ephemeral_key of
\* each layer's routing info and of the wrapper.
AnnouncedKeys ==
    {Property(layers[k].routingInfo, K_ephemeral_key) : k \in 1..Len(layers)}
        \cup {Property(WrapperMeta(onionRequest[1].ephemeralKey), K_ephemeral_key)}

\* C30: the public key of the final ephemeral keypair is announced in the
\* envelope, in the routing info of some layer or in the wrapper, for
\* every path of at least one hop.
C30_FinalKeyCommunicated ==
    (onionRequest # Null /\ Len(onionPath) >= 1) =>
        JStr(toHex(finalEphemeralKeyPair.publicKey)) \in AnnouncedKeys

====
